---- MODULE Spec2Model ----
(***************************************************************************)
(* Token-weighted governance: TestToken (ERC20 + ERC20Votes + Ownable)     *)
(* and DAOVoting (proposals, votes, quorum).                               *)
(*                                                                         *)
(* Every transaction is one atomic step.  A reverted transaction rolls     *)
(* every mutation back, so it is a stuttering step; the revert reason a    *)
(* call would produce in the current state is given by the ...Error        *)
(* operators ("" when the call succeeds), which are the guards of the      *)
(* actions.  The block number is advanced by the environment.              *)
(*                                                                         *)
(* The owner of both contracts is the deployer.  Allowances, permit and    *)
(* delegateBySig are left out: transferFrom moves balances through the     *)
(* same _update as transfer, delegateBySig ends in the same _delegate as   *)
(* delegate.  The token called by vote and state is TestToken, whose       *)
(* getPastVotes and getPastTotalSupply are views and call nothing back.    *)
(***************************************************************************)
EXTENDS Integers, Sequences, FiniteSets, TLC

(* ---------------- bounds of the model ---------------- *)
MaxBlock == 3
MaxSupply == 2
MaxProposals == 1
MaxAmount == 1
MaxTokenTxs == 3
\* the specification with several proposals: more proposals, fewer token operations
MaxProposalsMulti == 2
MaxTokenTxsMulti == 1
\* the specification of long checkpoint series: more blocks, more token operations
MaxBlockSeries == 8
MaxTokenTxsSeries == 7
\* the specification of concurrent proposals: two proposals, two token operations
MaxTokenTxsConcurrent == 2
\* the specification of the advancing chain: the last block the chain reaches
MaxBlockLive == 4

(* ---------------- program constants ---------------- *)
QUORUM_DENOMINATOR == 100
InitialSupply == 2

ZeroAddress == 0
Deployer == 1
\* the address of the deployed token, passed to the DAOVoting constructor
TokenAddress == 3
Accounts == {1, 2}
Addresses == Accounts \cup {ZeroAddress}
Amounts == 0..MaxAmount
QuorumInputs == {0, 50, 100, 101}
PeriodInputs == {0, 1, 2}
\* the keys of the proposals mapping the model keeps
ProposalIds == 1..MaxProposalsMulti
\* the ids passed to the functions: 0, the keys, and an id never assigned
IdInputs == 0..(MaxProposalsMulti + 1)

VARIABLES
    blockNumber,          \* block.number
    balances,             \* ERC20._balances
    totalSupply,          \* ERC20._totalSupply
    delegatee,            \* Votes._delegatee
    delegateCheckpoints,  \* Votes._delegateCheckpoints
    totalCheckpoints,     \* Votes._totalCheckpoints
    quorumNumerator,      \* DAOVoting.quorumNumerator
    votingPeriodBlocks,   \* DAOVoting.votingPeriodBlocks
    nextProposalId,       \* DAOVoting._nextProposalId
    proposals,            \* DAOVoting.proposals
    hasVoted,             \* DAOVoting.hasVoted
    tokenTxs,             \* number of token transactions sent so far
    _status,              \* ReentrancyGuard._status of DAOVoting
    pending,              \* the vote call that waits for its external call to return
    governanceToken,      \* DAOVoting.governanceToken (immutable)
    pc,                   \* the step of the deployment script main() is at or stopped at
    exitCode,             \* the code main() exited with, NotExited while it runs
    network,              \* hre.network.name
    config,               \* deploymentConfig[network]
    gas,                  \* outcome of the gas estimation of step 3
    tokenAddress,         \* tokenAddress of main(), ZeroAddress while unset
    deployed,             \* the contracts whose deployment transaction was mined
    validated,            \* the contracts validateDeployment returned true for
    saved                 \* saveDeployment wrote the deployment files

tokenVars == <<balances, totalSupply, delegatee, delegateCheckpoints, totalCheckpoints>>
guardVars == <<_status, pending>>
scriptVars == <<governanceToken, pc, exitCode, network, config, gas, tokenAddress,
                deployed, validated, saved>>
daoVars == <<quorumNumerator, votingPeriodBlocks, nextProposalId, proposals, hasVoted,
             guardVars>>
vars == <<blockNumber, balances, totalSupply, delegatee, delegateCheckpoints,
          totalCheckpoints, quorumNumerator, votingPeriodBlocks, nextProposalId,
          proposals, hasVoted, tokenTxs, _status, pending, governanceToken, pc,
          exitCode, network, config, gas, tokenAddress, deployed, validated, saved>>

(* ======================= checkpoint series ======================= *)

\* Checkpoints.latest: value of the last checkpoint, 0 for an empty series
latest(self) ==
    IF Len(self) = 0 THEN 0 ELSE self[Len(self)].value

\* a faulty insert: a checkpoint is appended for every write
_insert_alwaysAppend(self, key, value) ==
    Append(self, [key |-> key, value |-> value])

\* Checkpoints._insert: overwrite the last checkpoint when its key is the
\* current one, append otherwise
_insert(self, key, value) ==
    IF Len(self) > 0 /\ self[Len(self)].key = key
    THEN [self EXCEPT ![Len(self)].value = value]
    ELSE Append(self, [key |-> key, value |-> value])

\* Votes._push: new value = op(latest, delta), written at clock()
_push(self, delta) ==
    _insert(self, blockNumber, latest(self) + delta)

\* a faulty search: first index whose key is greater than or equal to `key`
RECURSIVE _upperBinaryLookup_lowerBound(_, _, _, _)
_upperBinaryLookup_lowerBound(self, key, low, high) ==
    IF low < high
    THEN LET mid == (low + high) \div 2
         IN  IF self[mid + 1].key >= key
             THEN _upperBinaryLookup_lowerBound(self, key, low, mid)
             ELSE _upperBinaryLookup_lowerBound(self, key, mid + 1, high)
    ELSE high

\* Checkpoints._upperBinaryLookup: first index in [low, high) whose key is
\* greater than `key` (0-based positions, as in the library), or high
RECURSIVE _upperBinaryLookup(_, _, _, _)
_upperBinaryLookup(self, key, low, high) ==
    IF low < high
    THEN LET mid == (low + high) \div 2
         IN  IF self[mid + 1].key > key
             THEN _upperBinaryLookup(self, key, low, mid)
             ELSE _upperBinaryLookup(self, key, mid + 1, high)
    ELSE high

\* Math.sqrt, rounded down
sqrt(n) ==
    CHOOSE r \in 0..n : r * r <= n /\ (r + 1) * (r + 1) > n

\* Checkpoints.upperLookupRecent: value of the last checkpoint with key <= key;
\* a series of more than 5 checkpoints is first cut at len - sqrt(len)
upperLookupRecent(self, key) ==
    LET len == Len(self)
        mid == len - sqrt(len)
        low == IF len > 5 /\ ~(key < self[mid + 1].key) THEN mid + 1 ELSE 0
        high == IF len > 5 /\ key < self[mid + 1].key THEN mid ELSE len
        pos == _upperBinaryLookup(self, key, low, high)
    IN  IF pos = 0 THEN 0 ELSE self[pos].value

(* ======================= TestToken ======================= *)

\* Votes.delegates
delegates(account) ==
    IF account = ZeroAddress THEN ZeroAddress ELSE delegatee[account]

\* Votes.getVotes
getVotes(account) == latest(delegateCheckpoints[account])

\* a faulty boundary: the current block may be queried
FutureLookup_currentAllowed(timepoint) == timepoint > blockNumber

\* Votes.getPastVotes; the caller checks FutureLookup(timepoint) first
FutureLookup(timepoint) == timepoint >= blockNumber

getPastVotes(account, timepoint) ==
    upperLookupRecent(delegateCheckpoints[account], timepoint)

\* Votes.getPastTotalSupply
getPastTotalSupply(timepoint) ==
    upperLookupRecent(totalCheckpoints, timepoint)

\* a faulty move: the votes are credited, the old delegate is not debited
_moveDelegateVotes_creditOnly(cp, from, to, amount) ==
    IF from # to /\ amount > 0 /\ to # ZeroAddress
    THEN [cp EXCEPT ![to] = _push(@, amount)]
    ELSE cp

\* Votes._moveDelegateVotes
_moveDelegateVotes(cp, from, to, amount) ==
    IF from # to /\ amount > 0
    THEN LET c1 == IF from # ZeroAddress
                   THEN [cp EXCEPT ![from] = _push(@, 0 - amount)]
                   ELSE cp
         IN  IF to # ZeroAddress
             THEN [c1 EXCEPT ![to] = _push(@, amount)]
             ELSE c1
    ELSE cp

\* a faulty base update: a burn leaves the total supply as it was
ERC20_update_burnKeepsSupply(from, to, value) ==
    /\ balances' =
         LET b1 == IF from = ZeroAddress THEN balances
                   ELSE [balances EXCEPT ![from] = @ - value]
         IN  IF to = ZeroAddress THEN b1 ELSE [b1 EXCEPT ![to] = @ + value]
    /\ totalSupply' =
         IF from = ZeroAddress THEN totalSupply + value ELSE totalSupply

\* ERC20._update: balances and total supply (an insufficient balance reverts
\* in the callers' ...Error operators)
ERC20_update(from, to, value) ==
    /\ balances' =
         LET b1 == IF from = ZeroAddress THEN balances
                   ELSE [balances EXCEPT ![from] = @ - value]
         IN  IF to = ZeroAddress THEN b1 ELSE [b1 EXCEPT ![to] = @ + value]
    /\ totalSupply' =
         LET s1 == IF from = ZeroAddress THEN totalSupply + value ELSE totalSupply
         IN  IF to = ZeroAddress THEN s1 - value ELSE s1

\* Votes._transferVotingUnits, called by ERC20Votes._update
_transferVotingUnits(from, to, amount) ==
    /\ totalCheckpoints' =
         LET t1 == IF from = ZeroAddress THEN _push(totalCheckpoints, amount)
                   ELSE totalCheckpoints
         IN  IF to = ZeroAddress THEN _push(t1, 0 - amount) ELSE t1
    /\ delegateCheckpoints' =
         _moveDelegateVotes(delegateCheckpoints, delegates(from), delegates(to), amount)

\* a faulty override: only the ERC20 base is called, the votes hook is skipped
_update_ERC20Only(from, to, value) ==
    /\ ERC20_update(from, to, value)
    /\ UNCHANGED <<delegatee, totalCheckpoints, delegateCheckpoints>>

\* TestToken._update: super._update runs ERC20Votes._update, which runs
\* ERC20._update and then moves the voting units
_update(from, to, value) ==
    /\ ERC20_update(from, to, value)
    /\ _transferVotingUnits(from, to, value)
    /\ UNCHANGED delegatee

\* a faulty transfer check: the balance of the sender is not looked at
transferError_noBalanceCheck(caller, to, value) ==
    IF to = ZeroAddress THEN "ERC20InvalidReceiver" ELSE ""

\* revert reason of ERC20.transfer(to, value) called by `caller`, "" if none
transferError(caller, to, value) ==
    IF to = ZeroAddress THEN "ERC20InvalidReceiver"
    ELSE IF balances[caller] < value THEN "ERC20InsufficientBalance"
    ELSE ""

\* ERC20.transfer
transfer(caller, to, value) ==
    /\ transferError(caller, to, value) = ""
    /\ _update(caller, to, value)
    /\ tokenTxs' = tokenTxs + 1
    /\ UNCHANGED <<blockNumber, daoVars, scriptVars>>

\* revert reason of TestToken.mint(to, amount)
mintError(caller, to, amount) ==
    IF caller # Deployer THEN "OwnableUnauthorizedAccount"
    ELSE IF to = ZeroAddress THEN "ERC20InvalidReceiver"
    ELSE ""

\* TestToken.mint
mint(caller, to, amount) ==
    /\ mintError(caller, to, amount) = ""
    /\ totalSupply + amount <= MaxSupply
    /\ _update(ZeroAddress, to, amount)
    /\ tokenTxs' = tokenTxs + 1
    /\ UNCHANGED <<blockNumber, daoVars, scriptVars>>

\* revert reason of TestToken.burn(from, amount), the owner's burn
burnFromError(caller, from, amount) ==
    IF caller # Deployer THEN "OwnableUnauthorizedAccount"
    ELSE IF from = ZeroAddress THEN "ERC20InvalidSender"
    ELSE IF balances[from] < amount THEN "ERC20InsufficientBalance"
    ELSE ""

\* TestToken.burn(address from, uint256 amount)
burnFrom(caller, from, amount) ==
    /\ burnFromError(caller, from, amount) = ""
    /\ _update(from, ZeroAddress, amount)
    /\ tokenTxs' = tokenTxs + 1
    /\ UNCHANGED <<blockNumber, daoVars, scriptVars>>

\* revert reason of TestToken.burn(amount), the holder's own burn
burnError(caller, amount) ==
    IF balances[caller] < amount THEN "ERC20InsufficientBalance" ELSE ""

\* TestToken.burn(uint256 amount)
burn(caller, amount) ==
    /\ burnError(caller, amount) = ""
    /\ _update(caller, ZeroAddress, amount)
    /\ tokenTxs' = tokenTxs + 1
    /\ UNCHANGED <<blockNumber, daoVars, scriptVars>>

\* Votes.delegate -> Votes._delegate
delegate(caller, newDelegate) ==
    /\ delegatee' = [delegatee EXCEPT ![caller] = newDelegate]
    /\ delegateCheckpoints' =
         _moveDelegateVotes(delegateCheckpoints, delegates(caller), newDelegate,
                            balances[caller])
    /\ tokenTxs' = tokenTxs + 1
    /\ UNCHANGED <<blockNumber, balances, totalSupply, totalCheckpoints, daoVars,
                   scriptVars>>

\* the zero value of the Proposal struct
NoProposal ==
    [id |-> 0, proposer |-> ZeroAddress, snapshotBlock |-> 0, startBlock |-> 0,
     endBlock |-> 0, forVotes |-> 0, againstVotes |-> 0,
     canceled |-> FALSE, executed |-> FALSE]

(* ======================= DAOVoting ======================= *)

\* no vote call waits for an external call
NoCall == [caller |-> ZeroAddress, proposalId |-> 0, support |-> FALSE]

\* a faulty guard: the status is not looked at
nonReentrantError_notChecked == ""

\* revert reason of ReentrancyGuard's nonReentrant modifier, "" if none
nonReentrantError ==
    IF _status = "ENTERED" THEN "ReentrancyGuardReentrantCall" ELSE ""

\* proposals[proposalId]: a mapping returns the zero struct for an unset key
proposalAt(proposalId) ==
    IF proposalId \in ProposalIds THEN proposals[proposalId] ELSE NoProposal

\* a faulty createProposal: the caller must hold votes
createProposalUpTo_votesRequired(caller, limit) ==
    /\ nextProposalId <= limit
    /\ getVotes(caller) > 0
    /\ LET pid == nextProposalId
       IN  proposals' = [proposals EXCEPT ![pid] =
               [id |-> pid, proposer |-> caller,
                snapshotBlock |-> blockNumber, startBlock |-> blockNumber,
                endBlock |-> blockNumber + votingPeriodBlocks,
                forVotes |-> 0, againstVotes |-> 0,
                canceled |-> FALSE, executed |-> FALSE]]
    /\ nextProposalId' = nextProposalId + 1
    /\ UNCHANGED <<scriptVars, guardVars, blockNumber, tokenVars, tokenTxs, quorumNumerator,
                   votingPeriodBlocks, hasVoted>>

\* a faulty createProposal: the id counter is not advanced
createProposalUpTo_noIncrement(caller, limit) ==
    /\ nextProposalId <= limit
    /\ LET pid == nextProposalId
       IN  proposals' = [proposals EXCEPT ![pid] =
               [id |-> pid, proposer |-> caller,
                snapshotBlock |-> blockNumber, startBlock |-> blockNumber,
                endBlock |-> blockNumber + votingPeriodBlocks,
                forVotes |-> 0, againstVotes |-> 0,
                canceled |-> FALSE, executed |-> FALSE]]
    /\ UNCHANGED <<scriptVars, guardVars, blockNumber, tokenVars, tokenTxs, quorumNumerator,
                   votingPeriodBlocks, hasVoted, nextProposalId>>

\* DAOVoting.createProposal, as long as fewer than limit proposals exist
createProposalUpTo(caller, limit) ==
    /\ nextProposalId <= limit
    /\ LET pid == nextProposalId
       IN  proposals' = [proposals EXCEPT ![pid] =
               [id |-> pid, proposer |-> caller,
                snapshotBlock |-> blockNumber, startBlock |-> blockNumber,
                endBlock |-> blockNumber + votingPeriodBlocks,
                forVotes |-> 0, againstVotes |-> 0,
                canceled |-> FALSE, executed |-> FALSE]]
    /\ nextProposalId' = nextProposalId + 1
    /\ UNCHANGED <<scriptVars, guardVars, blockNumber, tokenVars, tokenTxs, quorumNumerator,
                   votingPeriodBlocks, hasVoted>>

\* DAOVoting.createProposal
createProposal(caller) == createProposalUpTo(caller, MaxProposals)

\* a faulty weight: the caller's current votes instead of the votes at the snapshot
voteWeight_current(proposalId, caller) ==
    getVotes(caller)

\* the weight DAOVoting.vote reads: governanceToken.getPastVotes(msg.sender, p.snapshotBlock)
voteWeight(proposalId, caller) ==
    getPastVotes(caller, proposalAt(proposalId).snapshotBlock)

\* a faulty vote check: the end of the window is not checked
voteError_noWindowEnd(proposalId, caller) ==
    LET p == proposalAt(proposalId)
    IN  IF nonReentrantError # "" THEN nonReentrantError
        ELSE IF p.id = 0 THEN "proposal not found"
        ELSE IF p.canceled THEN "proposal canceled"
        ELSE IF ~(blockNumber >= p.startBlock) THEN "voting not started"
        ELSE IF hasVoted[proposalId][caller] THEN "already voted"
        ELSE IF FutureLookup(p.snapshotBlock) THEN "ERC5805FutureLookup"
        ELSE IF ~(voteWeight(proposalId, caller) > 0) THEN "no voting power at snapshot"
        ELSE ""

\* a faulty vote check: a weight of zero is accepted
voteError_noWeightCheck(proposalId, caller) ==
    LET p == proposalAt(proposalId)
    IN  IF nonReentrantError # "" THEN nonReentrantError
        ELSE IF p.id = 0 THEN "proposal not found"
        ELSE IF p.canceled THEN "proposal canceled"
        ELSE IF ~(blockNumber >= p.startBlock) THEN "voting not started"
        ELSE IF ~(blockNumber <= p.endBlock) THEN "voting ended"
        ELSE IF hasVoted[proposalId][caller] THEN "already voted"
        ELSE IF FutureLookup(p.snapshotBlock) THEN "ERC5805FutureLookup"
        ELSE ""

\* a faulty vote check: the receipt is not consulted
voteError_noReceiptCheck(proposalId, caller) ==
    LET p == proposalAt(proposalId)
    IN  IF nonReentrantError # "" THEN nonReentrantError
        ELSE IF p.id = 0 THEN "proposal not found"
        ELSE IF p.canceled THEN "proposal canceled"
        ELSE IF ~(blockNumber >= p.startBlock) THEN "voting not started"
        ELSE IF ~(blockNumber <= p.endBlock) THEN "voting ended"
        ELSE IF FutureLookup(p.snapshotBlock) THEN "ERC5805FutureLookup"
        ELSE IF ~(getPastVotes(caller, p.snapshotBlock) > 0) THEN "no voting power at snapshot"
        ELSE ""

\* revert reason of DAOVoting.vote(proposalId, support) called by `caller`, "" if none
voteError(proposalId, caller) ==
    LET p == proposalAt(proposalId)
    IN  IF nonReentrantError # "" THEN nonReentrantError
        ELSE IF p.id = 0 THEN "proposal not found"
        ELSE IF p.canceled THEN "proposal canceled"
        ELSE IF ~(blockNumber >= p.startBlock) THEN "voting not started"
        ELSE IF ~(blockNumber <= p.endBlock) THEN "voting ended"
        ELSE IF hasVoted[proposalId][caller] THEN "already voted"
        ELSE IF FutureLookup(p.snapshotBlock) THEN "ERC5805FutureLookup"
        ELSE IF ~(voteWeight(proposalId, caller) > 0) THEN "no voting power at snapshot"
        ELSE ""

\* a faulty vote: the receipt is written before the weight is checked and
\* stays when the call is refused for lack of voting power
vote_receiptBeforeWeightCheck(caller, proposalId, support) ==
    \/ /\ voteError(proposalId, caller) = ""
       /\ LET weight == voteWeight(proposalId, caller)
          IN  /\ hasVoted' = [hasVoted EXCEPT ![proposalId][caller] = TRUE]
              /\ proposals' =
                   IF support
                   THEN [proposals EXCEPT ![proposalId].forVotes = @ + weight]
                   ELSE [proposals EXCEPT ![proposalId].againstVotes = @ + weight]
       /\ UNCHANGED <<scriptVars, guardVars, blockNumber, tokenVars, tokenTxs, quorumNumerator,
                      votingPeriodBlocks, nextProposalId>>
    \/ /\ voteError(proposalId, caller) = "no voting power at snapshot"
       /\ hasVoted' = [hasVoted EXCEPT ![proposalId][caller] = TRUE]
       /\ UNCHANGED <<scriptVars, guardVars, blockNumber, tokenVars, tokenTxs, quorumNumerator,
                      votingPeriodBlocks, nextProposalId, proposals>>

\* a faulty vote: the branches of `if (support)` are swapped
vote_swapped(caller, proposalId, support) ==
    /\ voteError(proposalId, caller) = ""
    /\ LET weight == voteWeight(proposalId, caller)
       IN  /\ hasVoted' = [hasVoted EXCEPT ![proposalId][caller] = TRUE]
           /\ proposals' =
                IF support
                THEN [proposals EXCEPT ![proposalId].againstVotes = @ + weight]
                ELSE [proposals EXCEPT ![proposalId].forVotes = @ + weight]
    /\ UNCHANGED <<scriptVars, guardVars, blockNumber, tokenVars, tokenTxs, quorumNumerator,
                   votingPeriodBlocks, nextProposalId>>

\* a faulty vote: the receipt is kept per voter, for all proposals at once
vote_receiptPerVoter(caller, proposalId, support) ==
    /\ voteError(proposalId, caller) = ""
    /\ LET weight == voteWeight(proposalId, caller)
       IN  /\ hasVoted' = [i \in ProposalIds |-> [hasVoted[i] EXCEPT ![caller] = TRUE]]
           /\ proposals' =
                IF support
                THEN [proposals EXCEPT ![proposalId].forVotes = @ + weight]
                ELSE [proposals EXCEPT ![proposalId].againstVotes = @ + weight]
    /\ UNCHANGED <<scriptVars, guardVars, blockNumber, tokenVars, tokenTxs, quorumNumerator,
                   votingPeriodBlocks, nextProposalId>>

\* DAOVoting.vote
vote(caller, proposalId, support) ==
    /\ voteError(proposalId, caller) = ""
    /\ LET weight == voteWeight(proposalId, caller)
       IN  /\ hasVoted' = [hasVoted EXCEPT ![proposalId][caller] = TRUE]
           /\ proposals' =
                IF support
                THEN [proposals EXCEPT ![proposalId].forVotes = @ + weight]
                ELSE [proposals EXCEPT ![proposalId].againstVotes = @ + weight]
    /\ UNCHANGED <<scriptVars, guardVars, blockNumber, tokenVars, tokenTxs, quorumNumerator,
                   votingPeriodBlocks, nextProposalId>>

\* revert reason of the part of DAOVoting.vote that runs before the external
\* call governanceToken.getPastVotes, "" if none
voteErrorBeforeLookup(proposalId, caller) ==
    LET p == proposalAt(proposalId)
    IN  IF nonReentrantError # "" THEN nonReentrantError
        ELSE IF p.id = 0 THEN "proposal not found"
        ELSE IF p.canceled THEN "proposal canceled"
        ELSE IF ~(blockNumber >= p.startBlock) THEN "voting not started"
        ELSE IF ~(blockNumber <= p.endBlock) THEN "voting ended"
        ELSE IF hasVoted[proposalId][caller] THEN "already voted"
        ELSE ""

\* DAOVoting.vote up to the external call governanceToken.getPastVotes: the
\* modifier has set the status, the checks before the call have passed
voteCall(caller, proposalId, support) ==
    /\ voteErrorBeforeLookup(proposalId, caller) = ""
    /\ _status' = "ENTERED"
    /\ pending' = [caller |-> caller, proposalId |-> proposalId, support |-> support]
    /\ UNCHANGED <<scriptVars, blockNumber, tokenVars, tokenTxs, quorumNumerator,
                   votingPeriodBlocks, nextProposalId, proposals, hasVoted>>

\* DAOVoting.vote from the return of the external call: a failed lookup or a
\* zero weight reverts the call, otherwise the receipt and the tally are
\* written; the modifier resets the status in both cases
voteReturn ==
    /\ _status = "ENTERED"
    /\ LET caller == pending.caller
           proposalId == pending.proposalId
           weight == voteWeight(proposalId, caller)
       IN  IF FutureLookup(proposalAt(proposalId).snapshotBlock) \/ ~(weight > 0)
           THEN UNCHANGED <<proposals, hasVoted>>
           ELSE /\ hasVoted' = [hasVoted EXCEPT ![proposalId][caller] = TRUE]
                /\ proposals' =
                     IF pending.support
                     THEN [proposals EXCEPT ![proposalId].forVotes = @ + weight]
                     ELSE [proposals EXCEPT ![proposalId].againstVotes = @ + weight]
    /\ _status' = "NOT_ENTERED"
    /\ pending' = NoCall
    /\ UNCHANGED <<scriptVars, blockNumber, tokenVars, tokenTxs, quorumNumerator,
                   votingPeriodBlocks, nextProposalId>>

\* a faulty quorum: taken from the current total supply
requiredQuorumWith_currentSupply(proposalId, numerator) ==
    (totalSupply * numerator) \div QUORUM_DENOMINATOR

\* the quorum DAOVoting.state requires of a proposal: the total supply at the
\* snapshot times the numerator, over QUORUM_DENOMINATOR, rounded down; the
\* numerator the code reads from storage is a parameter here
requiredQuorumWith(proposalId, numerator) ==
    LET p == proposalAt(proposalId)
        totalSupplyAtSnapshot == getPastTotalSupply(p.snapshotBlock)
    IN  (totalSupplyAtSnapshot * numerator) \div QUORUM_DENOMINATOR

\* a faulty state: the window is looked at before the canceled and executed flags
stateWith_windowFirst(proposalId, numerator) ==
    LET p == proposalAt(proposalId)
    IN  IF p.id = 0 THEN "Unknown"
        ELSE IF blockNumber <= p.endBlock THEN "Active"
        ELSE IF p.canceled THEN "Canceled"
        ELSE IF p.executed THEN "Executed"
        ELSE IF p.forVotes >= requiredQuorumWith(proposalId, numerator)
                /\ p.forVotes > p.againstVotes
             THEN "Succeeded"
             ELSE "Defeated"

\* a faulty state: the quorum comparison is reversed
stateWith_quorumReversed(proposalId, numerator) ==
    LET p == proposalAt(proposalId)
    IN  IF p.id = 0 THEN "Unknown"
        ELSE IF p.canceled THEN "Canceled"
        ELSE IF p.executed THEN "Executed"
        ELSE IF blockNumber <= p.endBlock THEN "Active"
        ELSE IF p.forVotes <= requiredQuorumWith(proposalId, numerator)
                /\ p.forVotes > p.againstVotes
             THEN "Succeeded"
             ELSE "Defeated"

\* a faulty state: reaching the quorum is enough, the majority is not looked at
stateWith_quorumOnly(proposalId, numerator) ==
    LET p == proposalAt(proposalId)
    IN  IF p.id = 0 THEN "Unknown"
        ELSE IF p.canceled THEN "Canceled"
        ELSE IF p.executed THEN "Executed"
        ELSE IF blockNumber <= p.endBlock THEN "Active"
        ELSE IF p.forVotes >= requiredQuorumWith(proposalId, numerator)
             THEN "Succeeded"
             ELSE "Defeated"

\* a faulty state: the window test looks at the start of the window, so a
\* proposal stays Active however far the chain advances
stateWith_activeFromStart(proposalId, numerator) ==
    LET p == proposalAt(proposalId)
    IN  IF p.id = 0 THEN "Unknown"
        ELSE IF p.canceled THEN "Canceled"
        ELSE IF p.executed THEN "Executed"
        ELSE IF blockNumber >= p.startBlock THEN "Active"
        ELSE IF p.forVotes >= requiredQuorumWith(proposalId, numerator)
                /\ p.forVotes > p.againstVotes
             THEN "Succeeded"
             ELSE "Defeated"

\* the body of DAOVoting.state, with the quorum numerator as a parameter
stateWith(proposalId, numerator) ==
    LET p == proposalAt(proposalId)
    IN  IF p.id = 0 THEN "Unknown"
        ELSE IF p.canceled THEN "Canceled"
        ELSE IF p.executed THEN "Executed"
        ELSE IF blockNumber <= p.endBlock THEN "Active"
        ELSE IF p.forVotes >= requiredQuorumWith(proposalId, numerator)
                /\ p.forVotes > p.againstVotes
             THEN "Succeeded"
             ELSE "Defeated"

\* a faulty state: a tie counts as a success (>= instead of >)
state_tieSucceeds(proposalId) ==
    LET p == proposalAt(proposalId)
    IN  IF p.id = 0 THEN "Unknown"
        ELSE IF p.canceled THEN "Canceled"
        ELSE IF p.executed THEN "Executed"
        ELSE IF blockNumber <= p.endBlock THEN "Active"
        ELSE IF p.forVotes >= requiredQuorumWith(proposalId, quorumNumerator)
                /\ p.forVotes >= p.againstVotes
             THEN "Succeeded"
             ELSE "Defeated"

\* DAOVoting.state: computed with the stored quorumNumerator
state(proposalId) == stateWith(proposalId, quorumNumerator)

\* the quorum DAOVoting.state requires with the stored quorumNumerator
requiredQuorum(proposalId) == requiredQuorumWith(proposalId, quorumNumerator)

\* a faulty execute check: the window is looked at before the canceled flag
executeError_windowFirst(proposalId) ==
    LET p == proposalAt(proposalId)
    IN  IF nonReentrantError # "" THEN nonReentrantError
        ELSE IF p.id = 0 THEN "proposal not found"
        ELSE IF ~(blockNumber > p.endBlock) THEN "voting not ended"
        ELSE IF p.canceled THEN "proposal canceled"
        ELSE IF p.executed THEN "already executed"
        ELSE IF state(proposalId) # "Succeeded" THEN "proposal not successful"
        ELSE ""

\* a faulty execute check: the computed state is not consulted
executeError_noStateCheck(proposalId) ==
    LET p == proposalAt(proposalId)
    IN  IF nonReentrantError # "" THEN nonReentrantError
        ELSE IF p.id = 0 THEN "proposal not found"
        ELSE IF p.canceled THEN "proposal canceled"
        ELSE IF p.executed THEN "already executed"
        ELSE IF ~(blockNumber > p.endBlock) THEN "voting not ended"
        ELSE ""

\* revert reason of DAOVoting.executeProposal(proposalId), "" if none
executeError(proposalId) ==
    LET p == proposalAt(proposalId)
    IN  IF nonReentrantError # "" THEN nonReentrantError
        ELSE IF p.id = 0 THEN "proposal not found"
        ELSE IF p.canceled THEN "proposal canceled"
        ELSE IF p.executed THEN "already executed"
        ELSE IF ~(blockNumber > p.endBlock) THEN "voting not ended"
        ELSE IF state(proposalId) # "Succeeded" THEN "proposal not successful"
        ELSE ""

\* DAOVoting.executeProposal
executeProposal(caller, proposalId) ==
    /\ executeError(proposalId) = ""
    /\ proposals' = [proposals EXCEPT ![proposalId].executed = TRUE]
    /\ UNCHANGED <<scriptVars, guardVars, blockNumber, tokenVars, tokenTxs, quorumNumerator,
                   votingPeriodBlocks, nextProposalId, hasVoted>>

\* a faulty cancel check: the caller is not compared with the owner
cancelError_anyCaller(proposalId, caller) ==
    LET p == proposalAt(proposalId)
    IN  IF p.id = 0 THEN "proposal not found"
        ELSE IF p.canceled THEN "already canceled"
        ELSE IF p.executed THEN "already executed"
        ELSE ""

\* a faulty cancel check: an executed proposal can still be canceled
cancelError_noExecutedCheck(proposalId, caller) ==
    LET p == proposalAt(proposalId)
    IN  IF caller # Deployer THEN "OwnableUnauthorizedAccount"
        ELSE IF p.id = 0 THEN "proposal not found"
        ELSE IF p.canceled THEN "already canceled"
        ELSE ""

\* revert reason of DAOVoting.cancelProposal(proposalId) called by `caller`, "" if none
cancelError(proposalId, caller) ==
    LET p == proposalAt(proposalId)
    IN  IF caller # Deployer THEN "OwnableUnauthorizedAccount"
        ELSE IF p.id = 0 THEN "proposal not found"
        ELSE IF p.canceled THEN "already canceled"
        ELSE IF p.executed THEN "already executed"
        ELSE ""

\* DAOVoting.cancelProposal
cancelProposal(caller, proposalId) ==
    /\ cancelError(proposalId, caller) = ""
    /\ proposals' = [proposals EXCEPT ![proposalId].canceled = TRUE]
    /\ UNCHANGED <<scriptVars, guardVars, blockNumber, tokenVars, tokenTxs, quorumNumerator,
                   votingPeriodBlocks, nextProposalId, hasVoted>>

\* a faulty setQuorumNumerator check: no upper limit
setQuorumError_noUpperLimit(caller, newNumerator) ==
    IF caller # Deployer THEN "OwnableUnauthorizedAccount"
    ELSE IF ~(newNumerator > 0) THEN "invalid quorum"
    ELSE ""

\* revert reason of DAOVoting.setQuorumNumerator(newNumerator), "" if none
setQuorumError(caller, newNumerator) ==
    IF caller # Deployer THEN "OwnableUnauthorizedAccount"
    ELSE IF ~(newNumerator > 0 /\ newNumerator <= QUORUM_DENOMINATOR) THEN "invalid quorum"
    ELSE ""

\* a faulty setQuorumNumerator: the new numerator is accepted and not stored
setQuorumNumerator_notStored(caller, newNumerator) ==
    /\ setQuorumError(caller, newNumerator) = ""
    /\ UNCHANGED <<scriptVars, guardVars, quorumNumerator, blockNumber, tokenVars, tokenTxs,
                   votingPeriodBlocks, nextProposalId, proposals, hasVoted>>

\* DAOVoting.setQuorumNumerator
setQuorumNumerator(caller, newNumerator) ==
    /\ setQuorumError(caller, newNumerator) = ""
    /\ quorumNumerator' = newNumerator
    /\ UNCHANGED <<scriptVars, guardVars, blockNumber, tokenVars, tokenTxs, votingPeriodBlocks,
                   nextProposalId, proposals, hasVoted>>

\* a faulty setVotingPeriodBlocks check: the caller is not compared with the owner
setVotingPeriodError_anyCaller(caller, newVotingPeriodBlocks) ==
    IF ~(newVotingPeriodBlocks > 0) THEN "voting period zero" ELSE ""

\* revert reason of DAOVoting.setVotingPeriodBlocks(newVotingPeriodBlocks), "" if none
setVotingPeriodError(caller, newVotingPeriodBlocks) ==
    IF caller # Deployer THEN "OwnableUnauthorizedAccount"
    ELSE IF ~(newVotingPeriodBlocks > 0) THEN "voting period zero"
    ELSE ""

\* a faulty setVotingPeriodBlocks: the end of the existing proposals is moved
\* to the new length as well
setVotingPeriodBlocks_retroactive(caller, newVotingPeriodBlocks) ==
    /\ setVotingPeriodError(caller, newVotingPeriodBlocks) = ""
    /\ votingPeriodBlocks' = newVotingPeriodBlocks
    /\ proposals' = [i \in ProposalIds |->
                        IF proposals[i].id = 0 THEN proposals[i]
                        ELSE [proposals[i] EXCEPT
                                 !.endBlock = proposals[i].startBlock
                                                  + newVotingPeriodBlocks]]
    /\ UNCHANGED <<scriptVars, guardVars, blockNumber, tokenVars, tokenTxs, quorumNumerator,
                   nextProposalId, hasVoted>>

\* DAOVoting.setVotingPeriodBlocks
setVotingPeriodBlocks(caller, newVotingPeriodBlocks) ==
    /\ setVotingPeriodError(caller, newVotingPeriodBlocks) = ""
    /\ votingPeriodBlocks' = newVotingPeriodBlocks
    /\ UNCHANGED <<scriptVars, guardVars, blockNumber, tokenVars, tokenTxs, quorumNumerator,
                   nextProposalId, proposals, hasVoted>>

(* ======================= environment ======================= *)

\* the chain mines a block
mine ==
    /\ blockNumber' = blockNumber + 1
    /\ UNCHANGED <<tokenVars, daoVars, tokenTxs, scriptVars>>

\* revert reason of the DAOVoting constructor, "" if none
constructorError(_governanceToken, _quorumNumerator, _votingPeriodBlocks) ==
    IF ~(_governanceToken # ZeroAddress) THEN "token zero"
    ELSE IF ~(_quorumNumerator > 0 /\ _quorumNumerator <= QUORUM_DENOMINATOR)
         THEN "invalid quorum"
    ELSE IF ~(_votingPeriodBlocks > 0) THEN "voting period zero"
    ELSE ""

(* ======================= deployment script ======================= *)

\* exitCode while main() has not called process.exit
NotExited == -1

\* hre.network.name: the built-in network, a local node, a public network
Networks == {"hardhat", "localhost", "sepolia"}

\* the contracts main() deploys
Contracts == {"TestToken", "DAOVoting"}

\* deploymentConfig has no entry for the network
NoConfig ==
    [found |-> FALSE, tokenValid |-> FALSE, quorumNumerator |-> 0,
     votingPeriodBlocks |-> 0, verification |-> FALSE]

\* what deploymentConfig[network] can hold: nothing, or an entry whose token
\* part (name, symbol, initialSupply) is well-formed or not, with the dao
\* parameters and verification.enabled
ConfigInputs ==
    {NoConfig} \cup
    [found : {TRUE}, tokenValid : BOOLEAN, quorumNumerator : QuorumInputs,
     votingPeriodBlocks : PeriodInputs, verification : BOOLEAN]

\* the steps of main() in the order of the source; a run that stops keeps
\* the step it stopped at
Steps ==
    <<"setup", "config", "gas", "confirm", "deployToken", "deployDAO",
      "postDeploy", "verify", "save", "summary", "done">>

StepIndex(step) == CHOOSE i \in 1..Len(Steps) : Steps[i] = step

\* message of the error getConfig throws, "" if it returns the entry
getConfig(cfg) ==
    IF ~cfg.found THEN "No configuration found for network" ELSE ""

\* a faulty validation: the dao parameters are not looked at
validateConfig_tokenOnly(cfg) ==
    IF ~cfg.tokenValid THEN "Invalid token configuration" ELSE ""

\* message of the error validateConfig throws, "" if it returns true
validateConfig(cfg) ==
    IF ~cfg.tokenValid THEN "Invalid token configuration"
    ELSE IF cfg.quorumNumerator = 0 \/ cfg.quorumNumerator <= 0
            \/ cfg.quorumNumerator > 100
         THEN "Quorum numerator must be between 1 and 100"
    ELSE IF cfg.votingPeriodBlocks = 0 \/ cfg.votingPeriodBlocks <= 0
         THEN "Voting period must be greater than 0"
    ELSE ""

\* confirmDeployment: every path of the helper returns true
confirmDeployment(autoConfirm, isTTY) ==
    IF autoConfirm THEN TRUE
    ELSE IF ~isTTY THEN TRUE
    ELSE TRUE

\* the chain, the contracts' storage
chainVars == <<blockNumber, tokenVars, daoVars, tokenTxs, governanceToken>>

\* main() is at `step` and has not exited
Running(step) == exitCode = NotExited /\ pc = step

\* process.exit(code) at the current step
exit(code) ==
    /\ exitCode' = code
    /\ UNCHANGED <<pc, network, config, gas, tokenAddress, deployed, validated,
                   saved, chainVars>>

\* the step is over, main() goes on with `step`
continue(step) ==
    /\ pc' = step
    /\ UNCHANGED <<exitCode, network, config, gas, tokenAddress, deployed,
                   validated, saved, chainVars>>

\* step 1: the provider and the signer are queried outside any try block; a
\* rejected query rejects main(), whose catch handler exits with 1
environmentSetup ==
    /\ Running("setup")
    /\ \E answered \in BOOLEAN :
          IF answered THEN continue("config") ELSE exit(1)

\* step 2: getConfig and validateConfig; an error exits with 1
configurationValidation ==
    /\ Running("config")
    /\ IF getConfig(config) # "" \/ validateConfig(config) # ""
       THEN exit(1)
       ELSE continue("gas")

\* step 3: a failed estimation (or balance query) is caught and the run goes
\* on; an estimate the balance does not cover, off the built-in network,
\* exits with 1
gasEstimation ==
    /\ Running("gas")
    /\ \E estimated \in BOOLEAN, sufficientBalance \in BOOLEAN :
          /\ gas' = IF estimated THEN "ok" ELSE "failed"
          /\ IF estimated /\ ~sufficientBalance /\ network # "hardhat"
             THEN exitCode' = 1 /\ pc' = pc
             ELSE exitCode' = exitCode /\ pc' = "confirm"
    /\ UNCHANGED <<network, config, tokenAddress, deployed, validated, saved,
                   chainVars>>

\* step 4: on a network other than hardhat and localhost the run asks for
\* confirmation and exits with 0 when it is refused
deploymentConfirmation ==
    /\ Running("confirm")
    /\ \E autoConfirm \in BOOLEAN, isTTY \in BOOLEAN :
          IF network # "hardhat" /\ network # "localhost"
             /\ ~confirmDeployment(autoConfirm, isTTY)
          THEN exit(0)
          ELSE continue("deployToken")

\* step 5: deployContract("TestToken") and validateDeployment.  The
\* deployment may fail before the contract exists, or while waiting for the
\* further confirmations asked for on public networks; validateDeployment
\* returns false on a mismatch or a failed query.  Every failure exits with 1.
deployTestToken ==
    /\ Running("deployToken")
    /\ \E mined \in BOOLEAN, confirmed \in BOOLEAN, valid \in BOOLEAN :
          IF ~mined
          THEN exit(1)
          ELSE /\ balances' = [a \in Accounts |->
                                  IF a = Deployer THEN InitialSupply ELSE 0]
               /\ totalSupply' = InitialSupply
               /\ totalCheckpoints' =
                     << [key |-> blockNumber, value |-> InitialSupply] >>
               /\ deployed' = deployed \cup {"TestToken"}
               /\ IF ~confirmed /\ network # "hardhat" /\ network # "localhost"
                  THEN /\ exitCode' = 1
                       /\ UNCHANGED <<pc, tokenAddress, validated>>
                  ELSE /\ tokenAddress' = TokenAddress
                       /\ IF valid
                          THEN /\ validated' = validated \cup {"TestToken"}
                               /\ pc' = "deployDAO"
                               /\ UNCHANGED exitCode
                          ELSE /\ exitCode' = 1
                               /\ UNCHANGED <<pc, validated>>
               /\ UNCHANGED <<network, config, gas, saved, blockNumber, delegatee,
                              delegateCheckpoints, daoVars, tokenTxs,
                              governanceToken>>

\* step 6: deployContract("DAOVoting") with the token address and the dao
\* parameters of the configuration, validateDeployment, and the comparison of
\* dao.governanceToken() with the token address.  The constructor may revert;
\* every failure exits with 1.
deployDAOVoting ==
    /\ Running("deployDAO")
    /\ \E mined \in BOOLEAN, confirmed \in BOOLEAN, valid \in BOOLEAN,
          answered \in BOOLEAN :
          IF ~mined
             \/ constructorError(tokenAddress, config.quorumNumerator,
                                 config.votingPeriodBlocks) # ""
          THEN exit(1)
          ELSE /\ governanceToken' = tokenAddress
               /\ quorumNumerator' = config.quorumNumerator
               /\ votingPeriodBlocks' = config.votingPeriodBlocks
               /\ nextProposalId' = 1
               /\ _status' = "NOT_ENTERED"
               /\ deployed' = deployed \cup {"DAOVoting"}
               /\ IF ~confirmed /\ network # "hardhat" /\ network # "localhost"
                  THEN /\ exitCode' = 1
                       /\ UNCHANGED <<pc, validated>>
                  ELSE IF ~valid
                  THEN /\ exitCode' = 1
                       /\ UNCHANGED <<pc, validated>>
                  ELSE /\ validated' = validated \cup {"DAOVoting"}
                       /\ IF ~answered \/ governanceToken' # tokenAddress
                          THEN exitCode' = 1 /\ pc' = pc
                          ELSE exitCode' = exitCode /\ pc' = "postDeploy"
               /\ UNCHANGED <<network, config, gas, tokenAddress, saved,
                              blockNumber, tokenVars, tokenTxs, proposals,
                              hasVoted, pending>>

\* step 7: the balance, delegate and votes of the deployer are printed; a
\* failed query is caught and the run goes on
postDeploymentSetup ==
    /\ Running("postDeploy")
    /\ continue("verify")

\* step 8: verifyContract for both contracts when verification is enabled
\* and not skipped; verifyContract catches its own errors
contractVerification ==
    /\ Running("verify")
    /\ \E skip \in BOOLEAN : continue("save")

\* step 9: the deployment record is built and saveDeployment writes it; a
\* failed chain query or file write rejects main(), which exits with 1
saveDeploymentArtifacts ==
    /\ Running("save")
    /\ \E written \in BOOLEAN :
          IF written
          THEN /\ saved' = TRUE
               /\ pc' = "summary"
               /\ UNCHANGED <<exitCode, network, config, gas, tokenAddress,
                              deployed, validated, chainVars>>
          ELSE exit(1)

\* step 10: the summary is printed, main() resolves and the run exits with 0
deploymentSummary ==
    /\ Running("summary")
    /\ pc' = "done"
    /\ exitCode' = 0
    /\ UNCHANGED <<network, config, gas, tokenAddress, deployed, validated,
                   saved, chainVars>>

\* before the script runs: no contract is deployed, the storage the contracts
\* will use is empty; the network and its configuration entry are given
InitScript ==
    /\ blockNumber = 1
    /\ balances = [a \in Accounts |-> 0]
    /\ totalSupply = 0
    /\ delegatee = [a \in Accounts |-> ZeroAddress]
    /\ delegateCheckpoints = [a \in Accounts |-> << >>]
    /\ totalCheckpoints = << >>
    /\ quorumNumerator = 0
    /\ votingPeriodBlocks = 0
    /\ nextProposalId = 0
    /\ tokenTxs = 0
    /\ proposals = [i \in ProposalIds |-> NoProposal]
    /\ hasVoted = [i \in ProposalIds |-> [a \in Accounts |-> FALSE]]
    /\ _status = "UNSET"
    /\ pending = NoCall
    /\ governanceToken = ZeroAddress
    /\ pc = "setup"
    /\ exitCode = NotExited
    /\ network \in Networks
    /\ config \in ConfigInputs
    /\ gas = "pending"
    /\ tokenAddress = ZeroAddress
    /\ deployed = {}
    /\ validated = {}
    /\ saved = FALSE

NextScript ==
    \/ environmentSetup
    \/ configurationValidation
    \/ gasEstimation
    \/ deploymentConfirmation
    \/ deployTestToken
    \/ deployDAOVoting
    \/ postDeploymentSetup
    \/ contractVerification
    \/ saveDeploymentArtifacts
    \/ deploymentSummary

SpecScript == InitScript /\ [][NextScript]_vars

(* ======================= deployed system ======================= *)

\* state after both constructors: the token minted InitialSupply to the
\* deployer; the DAOVoting constructor accepted its arguments and stored
\* them; the deployment script ran to its end on the built-in network
constructor(_governanceToken, _quorumNumerator, _votingPeriodBlocks) ==
    /\ constructorError(_governanceToken, _quorumNumerator, _votingPeriodBlocks) = ""
    /\ blockNumber = 1
    /\ balances = [a \in Accounts |-> IF a = Deployer THEN InitialSupply ELSE 0]
    /\ totalSupply = InitialSupply
    /\ delegatee = [a \in Accounts |-> ZeroAddress]
    /\ delegateCheckpoints = [a \in Accounts |-> << >>]
    /\ totalCheckpoints = << [key |-> 1, value |-> InitialSupply] >>
    /\ quorumNumerator = _quorumNumerator
    /\ votingPeriodBlocks = _votingPeriodBlocks
    /\ nextProposalId = 1
    /\ tokenTxs = 0
    /\ proposals = [i \in ProposalIds |-> NoProposal]
    /\ hasVoted = [i \in ProposalIds |-> [a \in Accounts |-> FALSE]]
    /\ _status = "NOT_ENTERED"
    /\ pending = NoCall
    /\ governanceToken = _governanceToken
    /\ pc = "done"
    /\ exitCode = 0
    /\ network = "hardhat"
    /\ config = [found |-> TRUE, tokenValid |-> TRUE,
                 quorumNumerator |-> _quorumNumerator,
                 votingPeriodBlocks |-> _votingPeriodBlocks,
                 verification |-> FALSE]
    /\ gas = "ok"
    /\ tokenAddress = _governanceToken
    /\ deployed = Contracts
    /\ validated = Contracts
    /\ saved = TRUE

\* DAOVoting constructed with a quorum of 50 % and a voting period of one block
Init == constructor(TokenAddress, 50, 1)

\* DAOVoting constructed with any arguments the constructor is given
InitDeploy ==
    \E t \in {ZeroAddress, TokenAddress}, q \in QuorumInputs, n \in PeriodInputs :
        constructor(t, q, n)

\* every operation with every input; the chain stops at block MaxBlock and
\* MaxTokenTxs token operations are executed at most
Next ==
    \/ blockNumber < MaxBlock /\ mine
    \/ \E c \in Accounts, to \in Addresses, v \in Amounts :
          tokenTxs < MaxTokenTxs /\ transfer(c, to, v)
    \/ \E c \in Accounts, to \in Addresses, v \in Amounts :
          tokenTxs < MaxTokenTxs /\ mint(c, to, v)
    \/ \E c \in Accounts, f \in Addresses, v \in Amounts :
          tokenTxs < MaxTokenTxs /\ burnFrom(c, f, v)
    \/ \E c \in Accounts, v \in Amounts :
          tokenTxs < MaxTokenTxs /\ burn(c, v)
    \/ \E c \in Accounts, d \in Addresses :
          tokenTxs < MaxTokenTxs /\ delegate(c, d)
    \/ \E c \in Accounts : createProposal(c)
    \/ \E c \in Accounts, i \in IdInputs, s \in BOOLEAN : vote(c, i, s)
    \/ \E c \in Accounts, i \in IdInputs : executeProposal(c, i)
    \/ \E c \in Accounts, i \in IdInputs : cancelProposal(c, i)
    \/ \E c \in Accounts, q \in QuorumInputs : setQuorumNumerator(c, q)
    \/ \E c \in Accounts, n \in PeriodInputs : setVotingPeriodBlocks(c, n)

Spec == Init /\ [][Next]_vars

\* the same operations: up to MaxProposalsMulti proposals are created and up
\* to MaxTokenTxsMulti token operations are executed
NextMulti ==
    \/ blockNumber < MaxBlock /\ mine
    \/ \E c \in Accounts, to \in Addresses, v \in Amounts :
          tokenTxs < MaxTokenTxsMulti /\ transfer(c, to, v)
    \/ \E c \in Accounts, to \in Addresses, v \in Amounts :
          tokenTxs < MaxTokenTxsMulti /\ mint(c, to, v)
    \/ \E c \in Accounts, f \in Addresses, v \in Amounts :
          tokenTxs < MaxTokenTxsMulti /\ burnFrom(c, f, v)
    \/ \E c \in Accounts, v \in Amounts :
          tokenTxs < MaxTokenTxsMulti /\ burn(c, v)
    \/ \E c \in Accounts, d \in Addresses :
          tokenTxs < MaxTokenTxsMulti /\ delegate(c, d)
    \/ \E c \in Accounts : createProposalUpTo(c, MaxProposalsMulti)
    \/ \E c \in Accounts, i \in IdInputs, s \in BOOLEAN : vote(c, i, s)
    \/ \E c \in Accounts, i \in IdInputs : executeProposal(c, i)
    \/ \E c \in Accounts, i \in IdInputs : cancelProposal(c, i)
    \/ \E c \in Accounts, q \in QuorumInputs : setQuorumNumerator(c, q)
    \/ \E c \in Accounts, n \in PeriodInputs : setVotingPeriodBlocks(c, n)

SpecMulti == Init /\ [][NextMulti]_vars

\* the token operations of the deployer alone, over more blocks: the deployer
\* delegates to itself, mints to itself, burns its own tokens and transfers
\* to the other account, one token at a time
NextSeries ==
    \/ blockNumber < MaxBlockSeries /\ mine
    \/ tokenTxs < MaxTokenTxsSeries /\ delegate(Deployer, Deployer)
    \/ tokenTxs < MaxTokenTxsSeries /\ mint(Deployer, Deployer, 1)
    \/ tokenTxs < MaxTokenTxsSeries /\ burn(Deployer, 1)
    \/ tokenTxs < MaxTokenTxsSeries /\ transfer(Deployer, 2, 1)

SpecSeries == Init /\ [][NextSeries]_vars

\* the operations of SpecMulti after a construction with any arguments
SpecDeploy == InitDeploy /\ [][NextMulti]_vars

\* the operations of SpecMulti with room for two token operations, so that a
\* voter's votes can differ between the snapshots of two open proposals
NextConcurrent ==
    \/ blockNumber < MaxBlock /\ mine
    \/ \E c \in Accounts, to \in Addresses, v \in Amounts :
          tokenTxs < MaxTokenTxsConcurrent /\ transfer(c, to, v)
    \/ \E c \in Accounts, to \in Addresses, v \in Amounts :
          tokenTxs < MaxTokenTxsConcurrent /\ mint(c, to, v)
    \/ \E c \in Accounts, f \in Addresses, v \in Amounts :
          tokenTxs < MaxTokenTxsConcurrent /\ burnFrom(c, f, v)
    \/ \E c \in Accounts, v \in Amounts :
          tokenTxs < MaxTokenTxsConcurrent /\ burn(c, v)
    \/ \E c \in Accounts, d \in Addresses :
          tokenTxs < MaxTokenTxsConcurrent /\ delegate(c, d)
    \/ \E c \in Accounts : createProposalUpTo(c, MaxProposalsMulti)
    \/ \E c \in Accounts, i \in IdInputs, s \in BOOLEAN : vote(c, i, s)
    \/ \E c \in Accounts, i \in IdInputs : executeProposal(c, i)
    \/ \E c \in Accounts, i \in IdInputs : cancelProposal(c, i)
    \/ \E c \in Accounts, q \in QuorumInputs : setQuorumNumerator(c, q)
    \/ \E c \in Accounts, n \in PeriodInputs : setVotingPeriodBlocks(c, n)

SpecConcurrent == Init /\ [][NextConcurrent]_vars

\* the operations of SpecMulti with the calls of vote also taken in two steps,
\* before and after the external call: while a call is in progress the
\* transaction is not over, so no block is mined and no other transaction
\* runs; vote and executeProposal stand for calls made at any moment, nested
\* ones included
NextReentrant ==
    \/ _status = "NOT_ENTERED" /\ blockNumber < MaxBlock /\ mine
    \/ \E c \in Accounts, to \in Addresses, v \in Amounts :
          _status = "NOT_ENTERED" /\ tokenTxs < MaxTokenTxsMulti /\ transfer(c, to, v)
    \/ \E c \in Accounts, to \in Addresses, v \in Amounts :
          _status = "NOT_ENTERED" /\ tokenTxs < MaxTokenTxsMulti /\ mint(c, to, v)
    \/ \E c \in Accounts, f \in Addresses, v \in Amounts :
          _status = "NOT_ENTERED" /\ tokenTxs < MaxTokenTxsMulti /\ burnFrom(c, f, v)
    \/ \E c \in Accounts, v \in Amounts :
          _status = "NOT_ENTERED" /\ tokenTxs < MaxTokenTxsMulti /\ burn(c, v)
    \/ \E c \in Accounts, d \in Addresses :
          _status = "NOT_ENTERED" /\ tokenTxs < MaxTokenTxsMulti /\ delegate(c, d)
    \/ \E c \in Accounts :
          _status = "NOT_ENTERED" /\ createProposalUpTo(c, MaxProposalsMulti)
    \/ \E c \in Accounts, i \in IdInputs, s \in BOOLEAN : voteCall(c, i, s)
    \/ voteReturn
    \/ \E c \in Accounts, i \in IdInputs, s \in BOOLEAN : vote(c, i, s)
    \/ \E c \in Accounts, i \in IdInputs : executeProposal(c, i)
    \/ \E c \in Accounts, i \in IdInputs :
          _status = "NOT_ENTERED" /\ cancelProposal(c, i)
    \/ \E c \in Accounts, q \in QuorumInputs :
          _status = "NOT_ENTERED" /\ setQuorumNumerator(c, q)
    \/ \E c \in Accounts, n \in PeriodInputs :
          _status = "NOT_ENTERED" /\ setVotingPeriodBlocks(c, n)

SpecReentrant == Init /\ [][NextReentrant]_vars

\* the operations of SpecMulti on a chain that keeps advancing: blocks are
\* mined up to MaxBlockLive, and a proposal is created only while its window
\* ends before that block, so that the window of every proposal can pass
NextLive ==
    \/ blockNumber < MaxBlockLive /\ mine
    \/ \E c \in Accounts, to \in Addresses, v \in Amounts :
          tokenTxs < MaxTokenTxsMulti /\ transfer(c, to, v)
    \/ \E c \in Accounts, to \in Addresses, v \in Amounts :
          tokenTxs < MaxTokenTxsMulti /\ mint(c, to, v)
    \/ \E c \in Accounts, f \in Addresses, v \in Amounts :
          tokenTxs < MaxTokenTxsMulti /\ burnFrom(c, f, v)
    \/ \E c \in Accounts, v \in Amounts :
          tokenTxs < MaxTokenTxsMulti /\ burn(c, v)
    \/ \E c \in Accounts, d \in Addresses :
          tokenTxs < MaxTokenTxsMulti /\ delegate(c, d)
    \/ \E c \in Accounts :
          /\ blockNumber + votingPeriodBlocks < MaxBlockLive
          /\ createProposalUpTo(c, MaxProposalsMulti)
    \/ \E c \in Accounts, i \in IdInputs, s \in BOOLEAN : vote(c, i, s)
    \/ \E c \in Accounts, i \in IdInputs : executeProposal(c, i)
    \/ \E c \in Accounts, i \in IdInputs : cancelProposal(c, i)
    \/ \E c \in Accounts, q \in QuorumInputs : setQuorumNumerator(c, q)
    \/ \E c \in Accounts, n \in PeriodInputs : setVotingPeriodBlocks(c, n)

\* the chain keeps advancing: a block is mined again and again, whatever the
\* accounts do or do not do; no call of the token or of DAOVoting is required
\* to happen
SpecLive ==
    Init /\ [][NextLive]_vars /\ WF_vars(blockNumber < MaxBlockLive /\ mine)

(* ======================= properties ======================= *)

Exists(p) == proposals[p].id # 0

\* the window of p has closed and p is neither canceled nor executed
Closed(p) ==
    /\ Exists(p)
    /\ ~proposals[p].canceled
    /\ ~proposals[p].executed
    /\ blockNumber > proposals[p].endBlock

\* p accepts votes as far as the proposal itself is concerned
Open(p) ==
    /\ Exists(p)
    /\ ~proposals[p].canceled
    /\ blockNumber <= proposals[p].endBlock

\* some checkpoint of the series was written after block S
WrittenAfter(series, S) ==
    \E i \in 1..Len(series) : series[i].key > S

\* C1: once the chain is past the snapshot S of a proposal, the weight of every
\* voter at S - what vote reads, and getPastVotes(voter, S) for every past S -
\* is the same before and after every step, whatever transfer, mint, burn or
\* delegate is executed.
C1_SnapshotImmutability ==
    [][\A a \in Accounts :
          /\ \A p \in ProposalIds :
                (Exists(p) /\ proposals[p].snapshotBlock < blockNumber)
                    => voteWeight(p, a)' = voteWeight(p, a)
          /\ \A S \in 1..MaxBlock :
                S < blockNumber => getPastVotes(a, S)' = getPastVotes(a, S)]_vars

\* C1 witness: a voter whose votes were changed after the snapshot still has
\* the old, nonzero weight at the snapshot, different from the current votes.
C1_Witness ==
    \E p \in ProposalIds, a \in Accounts :
        /\ Exists(p)
        /\ proposals[p].snapshotBlock < blockNumber
        /\ WrittenAfter(delegateCheckpoints[a], proposals[p].snapshotBlock)
        /\ voteWeight(p, a) > 0
        /\ voteWeight(p, a) # getVotes(a)

\* C2 as stated: whenever the receipt (p, c) is set, a further vote by c on p
\* fails with "already voted".
C2_SecondVoteAlreadyVoted ==
    \A p \in ProposalIds, c \in Accounts :
        hasVoted[p][c] => voteError(p, c) = "already voted"

\* C2 amended: once the receipt (p, c) is set it stays set and no further vote
\* by c on p succeeds; the vote fails with "already voted" while p is not
\* canceled and its window is open, and with "proposal canceled" or "voting
\* ended" (the earlier checks) otherwise.
C2_NoDoubleVoting ==
    /\ [](\A p \in ProposalIds, c \in Accounts :
            hasVoted[p][c] =>
                /\ ~ENABLED vote(c, p, TRUE)
                /\ ~ENABLED vote(c, p, FALSE)
                /\ voteError(p, c) =
                     IF proposals[p].canceled THEN "proposal canceled"
                     ELSE IF blockNumber > proposals[p].endBlock THEN "voting ended"
                     ELSE "already voted")
    /\ [][\A p \in ProposalIds, c \in Accounts :
            hasVoted[p][c] =>
                /\ hasVoted'[p][c]
                /\ ~vote(c, p, TRUE)
                /\ ~vote(c, p, FALSE)]_vars

\* C2 witness: a voter has voted on a proposal that is still open, so that a
\* second attempt reaches the receipt check.
C2_Witness ==
    \E p \in ProposalIds, c \in Accounts :
        /\ hasVoted[p][c]
        /\ Open(p)
        /\ voteError(p, c) = "already voted"

\* C3: a successful vote(p, support) by c adds getPastVotes(c, snapshot of p),
\* which is positive, to forVotes when support is true and to againstVotes
\* when it is false, leaves the other tally unchanged and sets the receipt.
C3_VoteAddsSnapshotWeight ==
    [][\A p \in ProposalIds, c \in Accounts, support \in BOOLEAN :
          vote(c, p, support) =>
              LET w == getPastVotes(c, proposals[p].snapshotBlock)
              IN  /\ w > 0
                  /\ proposals'[p].forVotes =
                       proposals[p].forVotes + (IF support THEN w ELSE 0)
                  /\ proposals'[p].againstVotes =
                       proposals[p].againstVotes + (IF support THEN 0 ELSE w)
                  /\ ~hasVoted[p][c]
                  /\ hasVoted'[p][c]]_vars

\* C3 witness: c has voted for p with its weight at the snapshot while its
\* current votes differ from that weight.
C3_Witness ==
    \E p \in ProposalIds, c \in Accounts :
        /\ hasVoted[p][c]
        /\ proposals[p].forVotes = getPastVotes(c, proposals[p].snapshotBlock)
        /\ proposals[p].againstVotes = 0
        /\ getVotes(c) # proposals[p].forVotes

\* floor(a * b / c), as the greatest r with r * c <= a * b
FloorOfProduct(a, b, c) ==
    CHOOSE r \in 0..(a * b) : r * c <= a * b /\ (r + 1) * c > a * b

\* C4: for a proposal whose window has closed and that is neither canceled
\* nor executed, state is Succeeded iff forVotes >= floor(total supply at the
\* snapshot * quorumNumerator / 100) and forVotes > againstVotes, Defeated
\* otherwise; equal tallies give Defeated.
C4_SucceededIffQuorumAndMajority ==
    \A p \in ProposalIds :
        Closed(p) =>
            LET supplyAtSnapshot == getPastTotalSupply(proposals[p].snapshotBlock)
                quorum == FloorOfProduct(supplyAtSnapshot, quorumNumerator, 100)
                won == /\ proposals[p].forVotes >= quorum
                       /\ proposals[p].forVotes > proposals[p].againstVotes
            IN  /\ state(p) = IF won THEN "Succeeded" ELSE "Defeated"
                /\ proposals[p].forVotes = proposals[p].againstVotes
                       => state(p) = "Defeated"

\* C4 witness: a closed proposal with equal nonzero tallies that meet the quorum.
C4_Witness ==
    \E p \in ProposalIds :
        /\ Closed(p)
        /\ proposals[p].forVotes > 0
        /\ proposals[p].forVotes = proposals[p].againstVotes
        /\ proposals[p].forVotes * 100 >=
             getPastTotalSupply(proposals[p].snapshotBlock) * quorumNumerator
        /\ state(p) = "Defeated"

\* C5: a canceled or executed proposal rejects every vote, cancelProposal and
\* executeProposal of every caller, and in every step its state stays
\* Canceled respectively Executed.
C5_TerminalAbsorption ==
    /\ [](\A p \in ProposalIds :
            state(p) \in {"Canceled", "Executed"} =>
                \A c \in Accounts :
                    /\ ~ENABLED vote(c, p, TRUE)
                    /\ ~ENABLED vote(c, p, FALSE)
                    /\ ~ENABLED cancelProposal(c, p)
                    /\ ~ENABLED executeProposal(c, p)
                    /\ voteError(p, c) # ""
                    /\ cancelError(p, c) # ""
                    /\ executeError(p) # "")
    /\ [][\A p \in ProposalIds :
            state(p) \in {"Canceled", "Executed"} =>
                /\ state(p)' = state(p)
                /\ proposals'[p] = proposals[p]]_vars

\* C5 witness: an executed proposal, some blocks after its window closed.
C5_Witness ==
    \E p \in ProposalIds :
        /\ state(p) = "Executed"
        /\ blockNumber > proposals[p].endBlock
        /\ proposals[p].forVotes > 0

\* C6: executeProposal(p) succeeds, for every caller alike, exactly when p
\* exists, is neither canceled nor executed, the block number is past its end
\* and state(p) is Succeeded; a successful call sets executed and changes
\* nothing else.
C6_ExecuteExactlyWhenSucceeded ==
    /\ [](\A p \in IdInputs, c \in Accounts :
            (ENABLED executeProposal(c, p)) <=>
                /\ p \in ProposalIds
                /\ Exists(p)
                /\ ~proposals[p].canceled
                /\ ~proposals[p].executed
                /\ blockNumber > proposals[p].endBlock
                /\ state(p) = "Succeeded")
    /\ [][\A p \in ProposalIds, c \in Accounts :
            executeProposal(c, p) =>
                /\ proposals'[p].executed
                /\ proposals' = [proposals EXCEPT ![p].executed = TRUE]
                /\ UNCHANGED <<hasVoted, quorumNumerator, votingPeriodBlocks,
                               nextProposalId, blockNumber, tokenVars>>]_vars

\* C6 witness: a closed proposal in state Succeeded that an account other
\* than the owner can execute.
C6_Witness ==
    \E p \in ProposalIds, c \in Accounts :
        /\ c # Deployer
        /\ Closed(p)
        /\ state(p) = "Succeeded"
        /\ ENABLED executeProposal(c, p)

RECURSIVE SumOver(_, _)
\* the sum of f[a] over the accounts a in S
SumOver(f, S) ==
    IF S = {} THEN 0
    ELSE LET a == CHOOSE x \in S : TRUE
         IN  f[a] + SumOver(f, S \ {a})

\* C7: the balances add up to the total supply and no balance is negative.
C7_Conservation ==
    /\ SumOver(balances, Accounts) = totalSupply
    /\ \A a \in Accounts : balances[a] >= 0

\* C7 witness: after a transfer and a burn the supply is below the initial one
\* and none of it is held by the deployer.
C7_Witness ==
    /\ totalSupply < InitialSupply
    /\ totalSupply > 0
    /\ balances[Deployer] = 0
    /\ tokenTxs >= 2

\* C8: the current votes of every account are the sum of the balances of the
\* accounts that currently delegate to it; balances of accounts without a
\* delegate count for nobody.
C8_VotesAreDelegatedBalances ==
    \A d \in Accounts :
        getVotes(d) = SumOver(balances, {a \in Accounts : delegatee[a] = d})

\* C8 witness: d holds tokens and has no delegate, a holds tokens and
\* delegates to d: d's votes are a's balance, not its own.
C8_Witness ==
    \E a \in Accounts, d \in Accounts :
        /\ a # d
        /\ delegatee[a] = d
        /\ delegatee[d] = ZeroAddress
        /\ balances[a] > 0
        /\ balances[d] > 0
        /\ getVotes(d) = balances[a]
        /\ getVotes(a) = 0

\* C9 as stated: for an existing, non-canceled proposal and a caller that has
\* not voted and has a nonzero checkpointed weight at the snapshot, vote
\* succeeds at every block number from start (= snapshot) to end and fails
\* with "voting ended" from end + 1 on.
C9_WindowInclusive ==
    \A p \in ProposalIds, c \in Accounts :
        ( /\ Exists(p)
          /\ ~proposals[p].canceled
          /\ ~hasVoted[p][c]
          /\ voteWeight(p, c) > 0 )
        => /\ ( /\ proposals[p].startBlock <= blockNumber
                /\ blockNumber <= proposals[p].endBlock )
                  => voteError(p, c) = ""
           /\ blockNumber > proposals[p].endBlock
                  => voteError(p, c) = "voting ended"

\* every checkpoint of the series was written after block S
OnlyWrittenAfter(series, S) ==
    \A i \in 1..Len(series) : series[i].key > S

\* nobody delegated to a up to the snapshot of p, somebody did afterwards
DelegatedOnlyAfterSnapshot(p, a) ==
    /\ Exists(p)
    /\ OnlyWrittenAfter(delegateCheckpoints[a], proposals[p].snapshotBlock)
    /\ WrittenAfter(delegateCheckpoints[a], proposals[p].snapshotBlock)

\* C10 as stated: if votes were delegated to a only after the snapshot of p,
\* the weight of a at the snapshot is 0 and a vote by a on p fails with "no
\* voting power at snapshot".
C10_LateDelegationNoVotingPower ==
    \A p \in ProposalIds, a \in Accounts :
        DelegatedOnlyAfterSnapshot(p, a) =>
            /\ getPastVotes(a, proposals[p].snapshotBlock) = 0
            /\ voteError(p, a) = "no voting power at snapshot"

\* C10 amended: if votes were delegated to a only after the snapshot of p, the
\* weight of a at the snapshot is 0, a has no receipt for p and no vote by a
\* on p succeeds; the vote fails with "no voting power at snapshot" while p is
\* not canceled and its window is open, and with "proposal canceled" or
\* "voting ended" otherwise.  A first checkpoint is written to an account's
\* series only by a step after which somebody delegates to that account, and
\* it carries the current block number.
C10_LateDelegationCannotVote ==
    /\ [](\A p \in ProposalIds, a \in Accounts :
            DelegatedOnlyAfterSnapshot(p, a) =>
                /\ getPastVotes(a, proposals[p].snapshotBlock) = 0
                /\ ~hasVoted[p][a]
                /\ ~ENABLED vote(a, p, TRUE)
                /\ ~ENABLED vote(a, p, FALSE)
                /\ voteError(p, a) =
                     IF proposals[p].canceled THEN "proposal canceled"
                     ELSE IF blockNumber > proposals[p].endBlock THEN "voting ended"
                     ELSE "no voting power at snapshot")
    /\ [][\A a \in Accounts :
            (delegateCheckpoints[a] = << >> /\ delegateCheckpoints'[a] # << >>) =>
                /\ \E x \in Accounts : delegatee'[x] = a
                /\ OnlyWrittenAfter(delegateCheckpoints'[a], blockNumber - 1)]_vars

\* C10 witness: a has votes now, all delegated after the snapshot of an open
\* proposal, and its vote is rejected for lack of voting power.
C10_Witness ==
    \E p \in ProposalIds, a \in Accounts :
        /\ DelegatedOnlyAfterSnapshot(p, a)
        /\ Open(p)
        /\ getVotes(a) > 0
        /\ voteError(p, a) = "no voting power at snapshot"

\* the step mints or burns: the total supply or its checkpoints are written
MintOrBurnStep ==
    totalSupply' # totalSupply \/ totalCheckpoints' # totalCheckpoints

\* C11: the required quorum of a proposal is computed from the total supply
\* checkpointed at its snapshot block: when the chain leaves the snapshot block
\* it is floor(total supply * quorumNumerator / 100) of the supply the block
\* ended with, and a mint or burn executed once the chain is past the snapshot
\* changes neither the required quorum nor state(id).
C11_QuorumFromSnapshotSupply ==
    [][\A p \in ProposalIds :
          Exists(p) =>
            /\ (blockNumber = proposals[p].snapshotBlock /\ blockNumber' # blockNumber) =>
                  requiredQuorum(p)' =
                      FloorOfProduct(totalSupply, quorumNumerator, QUORUM_DENOMINATOR)
            /\ (blockNumber > proposals[p].snapshotBlock /\ MintOrBurnStep) =>
                  /\ requiredQuorum(p)' = requiredQuorum(p)
                  /\ state(p)' = state(p)]_vars

\* C11 witness: the window of a proposal has closed, the supply was changed
\* after its snapshot, and the quorum of the current supply would differ from
\* the one required.
C11_Witness ==
    \E p \in ProposalIds :
        /\ Closed(p)
        /\ WrittenAfter(totalCheckpoints, proposals[p].snapshotBlock)
        /\ requiredQuorum(p) #
              FloorOfProduct(totalSupply, quorumNumerator, QUORUM_DENOMINATOR)
        /\ state(p) = "Succeeded"

\* the revert reason the conditions of vote give when taken in the order
\* not found, canceled, not started, closed, already voted, no voting power
VoteErrorInOrder(proposalId, caller) ==
    LET p == proposalAt(proposalId)
    IN  IF p.id = 0 THEN "proposal not found"
        ELSE IF p.canceled THEN "proposal canceled"
        ELSE IF blockNumber < p.startBlock THEN "voting not started"
        ELSE IF blockNumber > p.endBlock THEN "voting ended"
        ELSE IF hasVoted[proposalId][caller] THEN "already voted"
        ELSE IF getPastVotes(caller, p.snapshotBlock) = 0
             THEN "no voting power at snapshot"
             ELSE ""

\* C12: vote fails with the first matching condition in the order proposal
\* not found, proposal canceled, voting not started (block < start), voting
\* closed (block > end), already voted, no voting power (weight at the
\* snapshot is 0), and succeeds when none matches; a vote on a canceled
\* proposal fails with "proposal canceled" whatever the window and the receipt.
C12_VoteErrorOrder ==
    \A i \in IdInputs, c \in Accounts :
        /\ voteError(i, c) = VoteErrorInOrder(i, c)
        /\ proposalAt(i).canceled => voteError(i, c) = "proposal canceled"

\* the revert reason the conditions of executeProposal give when taken in the
\* order not found, canceled, already executed, voting not ended, not successful
ExecuteErrorInOrder(proposalId) ==
    LET p == proposalAt(proposalId)
    IN  IF p.id = 0 THEN "proposal not found"
        ELSE IF p.canceled THEN "proposal canceled"
        ELSE IF p.executed THEN "already executed"
        ELSE IF blockNumber <= p.endBlock THEN "voting not ended"
        ELSE IF state(proposalId) # "Succeeded" THEN "proposal not successful"
        ELSE ""

\* C13: executeProposal fails with the first matching condition in the order
\* proposal not found, proposal canceled, already executed, voting not ended
\* (block <= end), proposal not successful, and succeeds when none matches;
\* executing a canceled proposal fails with "proposal canceled" both before
\* and after its window closes.
C13_ExecuteErrorOrder ==
    \A i \in IdInputs :
        /\ executeError(i) = ExecuteErrorInOrder(i)
        /\ proposalAt(i).canceled => executeError(i) = "proposal canceled"
        /\ \A c \in Accounts :
              ENABLED executeProposal(c, i) <=> ExecuteErrorInOrder(i) = ""

\* C13 witness: a canceled proposal whose window is still open is refused
\* execution with "proposal canceled".
C13_Witness ==
    \E p \in ProposalIds :
        /\ proposals[p].canceled
        /\ blockNumber <= proposals[p].endBlock
        /\ executeError(p) = "proposal canceled"

\* C14: state(id) is Unknown for an id that has never been assigned (0
\* included), Canceled when the proposal is canceled (whatever the window),
\* Executed when it is executed, and Active exactly when the proposal exists,
\* is neither canceled nor executed and block <= end.
C14_StateOfFlagsAndWindow ==
    \A i \in IdInputs :
        LET p == proposalAt(i)
        IN  /\ (i = 0 \/ i >= nextProposalId) => state(i) = "Unknown"
            /\ (state(i) = "Unknown") <=> (p.id = 0)
            /\ (p.id # 0 /\ p.canceled) => state(i) = "Canceled"
            /\ (p.id # 0 /\ p.executed) => state(i) = "Executed"
            /\ (state(i) = "Active") <=>
                  (p.id # 0 /\ ~p.canceled /\ ~p.executed /\ blockNumber <= p.endBlock)

\* C14 witness: a proposal canceled while its window is open reports Canceled,
\* and id 0 reports Unknown.
C14_Witness ==
    \E p \in ProposalIds :
        /\ Exists(p)
        /\ proposals[p].canceled
        /\ blockNumber <= proposals[p].endBlock
        /\ state(p) = "Canceled"
        /\ state(0) = "Unknown"

\* cancelProposal(proposalId) by caller meets no revert condition
Cancelable(proposalId, caller) ==
    LET p == proposalAt(proposalId)
    IN  caller = Deployer /\ p.id # 0 /\ ~p.canceled /\ ~p.executed

\* C15: cancelProposal succeeds exactly when the caller is the owner and the
\* proposal exists and is neither canceled nor executed, before and after the
\* end of the window; it sets canceled and changes no tally, no receipt and
\* nothing else.  Otherwise it fails: with the unauthorized-account error for
\* another caller, and for the owner with "proposal not found", "already
\* canceled" or "already executed"; no step of another caller and no step on a
\* proposal that is absent, canceled or executed sets a canceled flag.
C15_CancelExactlyByOwner ==
    /\ [](\A c \in Accounts, i \in IdInputs :
            LET p == proposalAt(i)
            IN  /\ ENABLED cancelProposal(c, i) <=> Cancelable(i, c)
                /\ Cancelable(i, c) =>
                      ENABLED (/\ cancelProposal(c, i)
                               /\ proposals' = [proposals EXCEPT ![i].canceled = TRUE]
                               /\ UNCHANGED <<hasVoted, quorumNumerator,
                                              votingPeriodBlocks, nextProposalId,
                                              blockNumber, tokenVars>>)
                /\ cancelError(i, c) =
                      IF c # Deployer THEN "OwnableUnauthorizedAccount"
                      ELSE IF p.id = 0 THEN "proposal not found"
                      ELSE IF p.canceled THEN "already canceled"
                      ELSE IF p.executed THEN "already executed"
                      ELSE "")
    /\ [][\A i \in ProposalIds :
            (proposals'[i].canceled /\ ~proposals[i].canceled) =>
                /\ Cancelable(i, Deployer)
                /\ proposals' = [proposals EXCEPT ![i].canceled = TRUE]
                /\ UNCHANGED hasVoted]_vars

\* C15 witness: a canceled proposal past its end block still carries the
\* votes and the receipt it had collected.
C15_Witness ==
    \E p \in ProposalIds, a \in Accounts :
        /\ proposals[p].canceled
        /\ blockNumber > proposals[p].endBlock
        /\ proposals[p].forVotes > 0
        /\ hasVoted[p][a]

\* the quorum numerators setQuorumNumerator accepts
ValidNumerators == 1..QUORUM_DENOMINATOR

\* C16: quorum monotonicity.  For a proposal whose window has closed and that
\* is neither canceled nor executed, with its tallies and snapshot supply as
\* they are, and numerators q1 < q2 in 1..100: if the proposal is Defeated
\* under q1 it is Defeated under q2.
C16_QuorumMonotonicity ==
    \A p \in ProposalIds :
        Closed(p) =>
            LET defeatedUnder ==
                    {q \in ValidNumerators : stateWith(p, q) = "Defeated"}
            IN  \A q1 \in defeatedUnder :
                    \A q2 \in ValidNumerators : q1 < q2 => q2 \in defeatedUnder

\* C16 witness: a closed proposal that succeeds under one numerator and is
\* defeated under a greater one, the greater one being stored.
C16_Witness ==
    \E p \in ProposalIds :
        /\ Closed(p)
        /\ stateWith(p, 50) = "Succeeded"
        /\ quorumNumerator = 100
        /\ state(p) = "Defeated"

\* Succeeded or Defeated, from the tallies of p, the supply at its snapshot
\* and the numerator q
OutcomeUnder(p, q) ==
    IF /\ proposals[p].forVotes >=
              FloorOfProduct(getPastTotalSupply(proposals[p].snapshotBlock),
                             q, QUORUM_DENOMINATOR)
       /\ proposals[p].forVotes > proposals[p].againstVotes
    THEN "Succeeded"
    ELSE "Defeated"

\* C17: a successful setQuorumNumerator(q) takes effect at once for the
\* proposals that exist: the call by the owner with a valid q is accepted and
\* after its step, and after any step that changes quorumNumerator, state(id)
\* of every closed, not canceled, not executed proposal is the outcome under
\* the new numerator and executeProposal(id) is accepted exactly when that
\* outcome is Succeeded.
C17_QuorumChangeImmediate ==
    /\ [](\A q \in QuorumInputs \cap ValidNumerators :
            ENABLED (/\ setQuorumNumerator(Deployer, q)
                     /\ quorumNumerator' = q
                     /\ \A p \in ProposalIds :
                           Closed(p) =>
                             /\ state(p)' = OutcomeUnder(p, q)
                             /\ (executeError(p)' = "") <=>
                                    (OutcomeUnder(p, q) = "Succeeded")))
    /\ [][quorumNumerator' # quorumNumerator =>
            \A p \in ProposalIds :
                Closed(p) =>
                  /\ state(p)' = OutcomeUnder(p, quorumNumerator')
                  /\ (executeError(p)' = "") <=>
                         (OutcomeUnder(p, quorumNumerator') = "Succeeded")]_vars

\* C17 witness: a closed proposal is Succeeded and executable, and the step
\* that raises the numerator leaves it Defeated and not executable.
C17_Witness ==
    \E p \in ProposalIds :
        /\ Closed(p)
        /\ state(p) = "Succeeded"
        /\ executeError(p) = ""
        /\ ENABLED (/\ setQuorumNumerator(Deployer, 100)
                    /\ state(p)' = "Defeated"
                    /\ executeError(p)' = "proposal not successful")

\* C18: while quorumNumerator is unchanged, once block > end the computed
\* state (Succeeded or Defeated) of a not canceled, not executed proposal does
\* not change, whatever token operation, vote, creation or voting-period change
\* the step is: its tallies, its end block and the supply at its snapshot stay
\* as they are.  The state flips only in a step that changes quorumNumerator.
C18_ClosedOutcomeStable ==
    [][\A p \in ProposalIds :
          (Closed(p) /\ Closed(p)') =>
            /\ proposals'[p].forVotes = proposals[p].forVotes
            /\ proposals'[p].againstVotes = proposals[p].againstVotes
            /\ getPastTotalSupply(proposals[p].snapshotBlock)' =
                   getPastTotalSupply(proposals[p].snapshotBlock)
            /\ state(p) \in {"Succeeded", "Defeated"}
            /\ quorumNumerator' = quorumNumerator => state(p)' = state(p)
            /\ state(p)' # state(p) => quorumNumerator' # quorumNumerator]_vars

\* C18 witness: a closed proposal is Defeated although an account that has not
\* voted on it holds votes now, the supply was changed after the end of its
\* window and so was the voting period.
C18_Witness ==
    \E p \in ProposalIds, a \in Accounts :
        /\ Closed(p)
        /\ state(p) = "Defeated"
        /\ ~hasVoted[p][a]
        /\ getVotes(a) > 0
        /\ WrittenAfter(totalCheckpoints, proposals[p].endBlock)
        /\ votingPeriodBlocks # 1

\* the fields createProposal writes once
Identity(p) ==
    <<proposals[p].id, proposals[p].proposer, proposals[p].snapshotBlock,
      proposals[p].startBlock, proposals[p].endBlock>>

\* C19: once a proposal is created, its id, proposer, snapshot, start and end
\* are changed by no later step, and the proposal is never deleted.  A change
\* of the voting period leaves every stored proposal as it is; the period in
\* force is read by the createProposal steps that follow, which set
\* end = block + votingPeriodBlocks.
C19_ProposalFrame ==
    [][\A p \in ProposalIds :
          /\ Exists(p) => (Exists(p)' /\ Identity(p)' = Identity(p))
          /\ votingPeriodBlocks' # votingPeriodBlocks => proposals' = proposals
          /\ (~Exists(p) /\ Exists(p)') =>
                /\ proposals'[p].snapshotBlock = blockNumber
                /\ proposals'[p].startBlock = blockNumber
                /\ proposals'[p].endBlock = blockNumber + votingPeriodBlocks]_vars

\* C19 witness: the voting period was changed between two creations: the
\* windows of the two proposals differ in length, and the second has the
\* length in force.
C19_Witness ==
    /\ Exists(1) /\ Exists(2)
    /\ proposals[1].endBlock - proposals[1].startBlock = 1
    /\ proposals[2].endBlock - proposals[2].startBlock = 2
    /\ votingPeriodBlocks = 2
    /\ proposals[1].canceled
    /\ proposals[2].forVotes > 0

\* the ids that carry no proposal: 0 and the ids not assigned so far
AbsentIds == {i \in IdInputs : i = 0 \/ i >= nextProposalId}

\* the proposals created so far carry the ids 1 .. nextProposalId - 1, each
\* stored under its own id, and no other key holds a proposal
IdsSequential ==
    /\ nextProposalId >= 1
    /\ \A i \in ProposalIds :
          IF i < nextProposalId THEN proposals[i].id = i
          ELSE proposals[i] = NoProposal

\* C20 as stated: ids are assigned 1, 2, 3, ... without gaps or reuse; id 0
\* and every id greater than the number of proposals created are absent, so
\* vote, executeProposal and cancelProposal on them fail with "proposal not
\* found" for every caller and state returns Unknown.
C20_AbsentIdsNotFound ==
    /\ IdsSequential
    /\ \A i \in AbsentIds, c \in Accounts :
          /\ voteError(i, c) = "proposal not found"
          /\ executeError(i) = "proposal not found"
          /\ cancelError(i, c) = "proposal not found"
          /\ state(i) = "Unknown"

\* C20 amended: ids are assigned 1, 2, 3, ... in creation order without gaps
\* or reuse: a creation step stores the new proposal under the id
\* nextProposalId, which held none, advances the counter by one and touches
\* no other proposal, and no other step changes the counter.  Id 0 and every
\* id greater than the number of proposals created are absent: state returns
\* Unknown, vote and executeProposal fail with "proposal not found", and so
\* does cancelProposal called by the owner; cancelProposal called by anyone
\* else fails with the unauthorized-account error.
C20_SequentialIds ==
    /\ [](/\ IdsSequential
          /\ \A i \in AbsentIds, c \in Accounts :
                /\ voteError(i, c) = "proposal not found"
                /\ executeError(i) = "proposal not found"
                /\ cancelError(i, c) =
                       IF c = Deployer THEN "proposal not found"
                       ELSE "OwnableUnauthorizedAccount"
                /\ state(i) = "Unknown"
                /\ ~ENABLED vote(c, i, TRUE) /\ ~ENABLED vote(c, i, FALSE)
                /\ ~ENABLED executeProposal(c, i)
                /\ ~ENABLED cancelProposal(c, i))
    /\ [][\/ /\ nextProposalId' = nextProposalId
             /\ \A i \in ProposalIds : Exists(i)' <=> Exists(i)
          \/ /\ nextProposalId' = nextProposalId + 1
             /\ ~Exists(nextProposalId)
             /\ proposals'[nextProposalId].id = nextProposalId
             /\ \A i \in ProposalIds \ {nextProposalId} :
                   proposals'[i] = proposals[i]]_vars

\* C20 witness: two proposals were created and carry the ids 1 and 2; id 3 is
\* absent and the owner's cancelProposal(3) fails with "proposal not found".
C20_Witness ==
    /\ nextProposalId = 3
    /\ proposals[1].id = 1
    /\ proposals[2].id = 2
    /\ proposals[1].snapshotBlock < proposals[2].snapshotBlock
    /\ state(3) = "Unknown"
    /\ voteError(3, Deployer) = "proposal not found"
    /\ cancelError(3, Deployer) = "proposal not found"

\* the proposal a creation by caller in the current state has to record
FreshProposal(caller) ==
    [id |-> nextProposalId, proposer |-> caller,
     snapshotBlock |-> blockNumber, startBlock |-> blockNumber,
     endBlock |-> blockNumber + votingPeriodBlocks,
     forVotes |-> 0, againstVotes |-> 0,
     canceled |-> FALSE, executed |-> FALSE]

\* C21: createProposal succeeds for any caller, with or without tokens, votes
\* or role, and records proposer = caller, snapshot = start = the current
\* block, end = start + the votingPeriodBlocks in force, forVotes =
\* againstVotes = 0 and canceled = executed = false; every step that brings a
\* proposal into existence records exactly that for one of the callers.
C21_CreateRecordsFreshProposal ==
    /\ [](\A c \in Accounts :
            nextProposalId <= MaxProposalsMulti =>
                ENABLED (/\ createProposalUpTo(c, MaxProposalsMulti)
                         /\ proposals'[nextProposalId] = FreshProposal(c)
                         /\ \A a \in Accounts :
                               ~hasVoted'[nextProposalId][a]))
    /\ [][\A p \in ProposalIds :
            (~Exists(p) /\ Exists(p)') =>
                /\ p = nextProposalId
                /\ \E c \in Accounts : proposals'[p] = FreshProposal(c)]_vars

\* C21 witness: an account that never held a token or a vote created a
\* proposal after the voting period had been changed; the window has the
\* changed length.
C21_Witness ==
    \E p \in ProposalIds :
        /\ tokenTxs = 0
        /\ proposals[p].proposer = 2
        /\ balances[2] = 0
        /\ getVotes(2) = 0
        /\ proposals[p].snapshotBlock = proposals[p].startBlock
        /\ proposals[p].endBlock = proposals[p].startBlock + 2
        /\ proposals[p].startBlock > 1

\* the step cancels p / executes p
CancelStep(p) == ~proposals[p].canceled /\ proposals'[p].canceled
ExecuteStep(p) == ~proposals[p].executed /\ proposals'[p].executed

\* C22 as stated: a proposal enters Canceled or Executed only from Active:
\* immediately before every successful cancelProposal(id) or
\* executeProposal(id), state(id) is Active.
C22_TerminalOnlyFromActive ==
    [][\A p \in ProposalIds :
          (CancelStep(p) \/ ExecuteStep(p)) => state(p) = "Active"]_vars

\* C22 amended: a proposal enters Executed only from Succeeded, never from
\* Active, and enters Canceled only from Active, Succeeded or Defeated;
\* neither is entered from Unknown, Canceled or Executed.  After the step
\* state(id) is Executed, respectively Canceled.
C22_TerminalOnlyFromLive ==
    [][\A p \in ProposalIds :
          /\ ExecuteStep(p) =>
                (state(p) = "Succeeded" /\ state(p)' = "Executed")
          /\ CancelStep(p) =>
                (/\ state(p) \in {"Active", "Succeeded", "Defeated"}
                 /\ state(p)' = "Canceled")
          /\ (state(p)' \in {"Canceled", "Executed"} /\ state(p)' # state(p)) =>
                (CancelStep(p) \/ ExecuteStep(p))]_vars

\* C22 witness: a proposal has been executed; its window is closed.
C22_Witness ==
    \E p \in ProposalIds :
        /\ proposals[p].executed
        /\ state(p) = "Executed"
        /\ blockNumber > proposals[p].endBlock

\* linear scan of a series from its first checkpoint: the value of the last
\* checkpoint met whose key is <= S, 0 if none is met
RECURSIVE LinearScan(_, _, _, _)
LinearScan(series, S, i, found) ==
    IF i > Len(series) THEN found
    ELSE LinearScan(series, S, i + 1,
                    IF series[i].key <= S THEN series[i].value ELSE found)

\* the value of the checkpoint with the greatest key <= S, 0 if there is none
LatestAtOrBefore(series, S) ==
    LET upTo == {i \in 1..Len(series) : series[i].key <= S}
    IN  IF upTo = {} THEN 0
        ELSE series[CHOOSE i \in upTo :
                        \A j \in upTo : series[j].key <= series[i].key].value

\* C23: for every account and every block S before the current one,
\* getPastVotes(account, S), and likewise getPastTotalSupply(S), is answered
\* with the value of the latest checkpoint of the series with key <= S, and
\* with 0 when the series has no checkpoint at or before S; the binary search
\* gives what a linear scan of the series gives.
C23_PastLookupIsLatestAtOrBefore ==
    \A S \in 0..(blockNumber - 1) :
        /\ ~FutureLookup(S)
        /\ getPastTotalSupply(S) = LatestAtOrBefore(totalCheckpoints, S)
        /\ getPastTotalSupply(S) = LinearScan(totalCheckpoints, S, 1, 0)
        /\ \A a \in Accounts :
              /\ getPastVotes(a, S) = LatestAtOrBefore(delegateCheckpoints[a], S)
              /\ getPastVotes(a, S) = LinearScan(delegateCheckpoints[a], S, 1, 0)

\* C23 witness: a series of more than five checkpoints, which the search
\* cuts before it bisects, queried at a block of its older part that has no
\* checkpoint of its own and at a block before its first checkpoint.
C23_Witness ==
    \E a \in Accounts :
        LET series == delegateCheckpoints[a]
        IN  /\ Len(series) > 5
            /\ series[1].key > 1
            /\ getPastVotes(a, 1) = 0
            /\ \E S \in 1..(blockNumber - 1) :
                  /\ S > series[1].key
                  /\ S < series[3].key
                  /\ \A i \in 1..Len(series) : series[i].key # S
                  /\ getPastVotes(a, S) > 0
                  /\ getPastVotes(a, S) # getVotes(a)

\* the keys of the series increase strictly and none lies in the future
StrictlyIncreasing(series) ==
    /\ \A i \in 1..Len(series) : series[i].key <= blockNumber
    /\ \A i \in 1..(Len(series) - 1) : series[i].key < series[i + 1].key

\* one step took the series from old to new: the checkpoints of earlier
\* blocks kept their place and content, and the step either wrote nothing,
\* or rewrote the value of the checkpoint of the current block, or appended
\* the checkpoint of the current block
WrittenInPlaceOrAppended(old, new) ==
    /\ Len(new) >= Len(old)
    /\ \A i \in 1..Len(old) : old[i].key < blockNumber => new[i] = old[i]
    /\ \/ new = old
       \/ /\ Len(new) = Len(old) /\ Len(old) > 0
          /\ old[Len(old)].key = blockNumber
          /\ new[Len(new)].key = blockNumber
       \/ /\ Len(new) = Len(old) + 1
          /\ new[Len(new)].key = blockNumber
          /\ \A i \in 1..Len(old) : new[i] = old[i]

\* C24: in every account's checkpoint series and in the total-supply series
\* the block numbers increase strictly, so that the operations executed in one
\* block leave one checkpoint for that block, and it holds the last value:
\* the total supply, respectively the account's current votes.  No step
\* modifies or removes a checkpoint of an earlier block.
C24_SeriesAppendOnly ==
    /\ [](/\ StrictlyIncreasing(totalCheckpoints)
          /\ latest(totalCheckpoints) = totalSupply
          /\ \A a \in Accounts :
                /\ StrictlyIncreasing(delegateCheckpoints[a])
                /\ latest(delegateCheckpoints[a]) =
                      SumOver([x \in Accounts |->
                                  IF delegatee[x] = a THEN balances[x] ELSE 0],
                              Accounts))
    /\ [][/\ WrittenInPlaceOrAppended(totalCheckpoints, totalCheckpoints')
          /\ \A a \in Accounts :
                WrittenInPlaceOrAppended(delegateCheckpoints[a],
                                         delegateCheckpoints'[a])]_vars

\* C24 witness: two neighbouring checkpoints of the deployer's series, of
\* consecutive blocks, hold the same value: as every operation moves one
\* token, the later block saw at least two operations and kept one checkpoint.
C24_Witness ==
    LET series == delegateCheckpoints[Deployer]
    IN  \E i \in 2..Len(series) :
            /\ series[i].value = series[i - 1].value
            /\ series[i].key = series[i - 1].key + 1
            /\ Len(series) > i

\* C25: getPastVotes(account, S) and getPastTotalSupply(S) fail with the
\* future-lookup error exactly when S >= the current block: a query for the
\* current block itself fails and every S below it is answered.  vote, which
\* queries the snapshot of the proposal, meets that error exactly when it
\* gets as far as the query in the snapshot block.
C25_FutureLookupBoundary ==
    /\ \A S \in 0..(blockNumber + 1) : FutureLookup(S) <=> S >= blockNumber
    /\ FutureLookup(blockNumber)
    /\ ~FutureLookup(blockNumber - 1)
    /\ \A p \in ProposalIds, c \in Accounts :
          (voteError(p, c) = "ERC5805FutureLookup") <=>
              (/\ Open(p)
               /\ ~hasVoted[p][c]
               /\ proposals[p].snapshotBlock = blockNumber)

\* C25 witness: a vote that queries the current block is refused with the
\* future-lookup error, by a caller whose votes at the block before are
\* answered and positive.
C25_Witness ==
    \E p \in ProposalIds, c \in Accounts :
        /\ proposals[p].snapshotBlock = blockNumber
        /\ voteError(p, c) = "ERC5805FutureLookup"
        /\ blockNumber > 1
        /\ ~FutureLookup(blockNumber - 1)
        /\ getPastVotes(c, blockNumber - 1) > 0

\* the votes of account a after voter, holding amount, moved its delegation
\* from old to new
VotesAfterDelegation(a, old, new, amount) ==
    getVotes(a) - (IF a = old /\ old # new THEN amount ELSE 0)
                + (IF a = new /\ old # new THEN amount ELSE 0)

\* C26: delegate(newDelegate) by a voter is always accepted; it takes the
\* voter's current balance off the votes of the old delegate, if the voter
\* had one, and adds it to the votes of the new delegate, and changes no
\* balance, nor the total supply and its series, nor the votes of any other
\* account; delegating to the delegate already in place leaves every series
\* as it is.
C26_DelegateMovesBalance ==
    \A c \in Accounts, d \in Addresses :
        ENABLED (/\ delegate(c, d)
                 /\ delegatee' = [delegatee EXCEPT ![c] = d]
                 /\ \A a \in Accounts :
                       getVotes(a)' =
                           VotesAfterDelegation(a, delegatee[c], d, balances[c])
                 /\ UNCHANGED <<balances, totalSupply, totalCheckpoints,
                                blockNumber, daoVars>>
                 /\ d = delegatee[c] => UNCHANGED delegateCheckpoints)

\* C26 witness: a voter with a balance and a delegate can move its delegation
\* to another account, which takes the old delegate's votes down and the new
\* one's up by the balance, while a third party's delegation stays.
C26_Witness ==
    \E c \in Accounts, d \in Accounts :
        /\ delegatee[c] \in Accounts
        /\ d # delegatee[c]
        /\ balances[c] > 0
        /\ \E x \in Accounts \ {c} : balances[x] > 0 /\ delegatee[x] = delegatee[c]
        /\ ENABLED (/\ delegate(c, d)
                    /\ getVotes(d)' = getVotes(d) + balances[c]
                    /\ getVotes(delegatee[c])' = getVotes(delegatee[c]) - balances[c]
                    /\ getVotes(delegatee[c])' > 0)

\* C27 as stated: a transfer or burn that debits more than the account holds
\* fails with the insufficient-balance error, and a transfer or mint to the
\* null address fails with the invalid-receiver error, whoever calls and
\* whatever else holds.
C27_DebitAndRecipientErrors ==
    \A c \in Accounts, x \in Addresses, v \in Amounts :
        /\ v > balances[c] =>
              /\ transferError(c, x, v) = "ERC20InsufficientBalance"
              /\ burnError(c, v) = "ERC20InsufficientBalance"
        /\ (x # ZeroAddress /\ v > balances[x]) =>
              burnFromError(c, x, v) = "ERC20InsufficientBalance"
        /\ x = ZeroAddress =>
              /\ transferError(c, x, v) = "ERC20InvalidReceiver"
              /\ mintError(c, x, v) = "ERC20InvalidReceiver"

\* C27 amended: a transfer to an account, the holder's own burn and the
\* owner's burn of an account's tokens fail with the insufficient-balance
\* error when they debit more than the account holds; a transfer to the null
\* address, whatever its amount, and the owner's mint to the null address
\* fail with the invalid-receiver error; mint and burn(from, amount) by
\* another caller fail with the unauthorized-account error before anything
\* else is looked at.  A failing call is no step: balances, total supply,
\* delegations and every series stay as they are.
C27_DebitAndRecipientErrorsInOrder ==
    \A c \in Accounts, x \in Addresses, v \in Amounts :
        /\ (x # ZeroAddress /\ v > balances[c]) =>
              transferError(c, x, v) = "ERC20InsufficientBalance"
        /\ v > balances[c] => burnError(c, v) = "ERC20InsufficientBalance"
        /\ (c = Deployer /\ x # ZeroAddress /\ v > balances[x]) =>
              burnFromError(c, x, v) = "ERC20InsufficientBalance"
        /\ x = ZeroAddress => transferError(c, x, v) = "ERC20InvalidReceiver"
        /\ (c = Deployer /\ x = ZeroAddress) =>
              mintError(c, x, v) = "ERC20InvalidReceiver"
        /\ c # Deployer =>
              /\ mintError(c, x, v) = "OwnableUnauthorizedAccount"
              /\ burnFromError(c, x, v) = "OwnableUnauthorizedAccount"
        /\ transferError(c, x, v) # "" => ~ENABLED transfer(c, x, v)
        /\ burnError(c, v) # "" => ~ENABLED burn(c, v)
        /\ burnFromError(c, x, v) # "" => ~ENABLED burnFrom(c, x, v)
        /\ mintError(c, x, v) # "" => ~ENABLED mint(c, x, v)
        /\ (x # ZeroAddress /\ v <= balances[c]) => ENABLED transfer(c, x, v)
        /\ v <= balances[c] => ENABLED burn(c, v)

\* C27 witness: one account holds a token and has a delegate, the other holds
\* none: the second is refused a transfer and a burn of one token, the first a
\* transfer to the null address, and the owner a mint to the null address.
C27_Witness ==
    \E c \in Accounts, x \in Accounts :
        /\ balances[c] = 1
        /\ delegatee[c] # ZeroAddress
        /\ x # c
        /\ transferError(c, x, 1) = ""
        /\ transferError(x, c, 1) = "ERC20InsufficientBalance"
        /\ burnError(x, 1) = "ERC20InsufficientBalance"
        /\ transferError(c, ZeroAddress, 1) = "ERC20InvalidReceiver"
        /\ mintError(Deployer, ZeroAddress, 1) = "ERC20InvalidReceiver"

\* C28: mint, burn(from, amount), cancelProposal, setQuorumNumerator and
\* setVotingPeriodBlocks called by anyone but the owner fail with the
\* unauthorized-account error, whatever their arguments, and are no step;
\* the holder's own burn needs no authority: it is accepted from every caller
\* for an amount within its balance.
C28_OnlyOwner ==
    \A c \in Accounts :
        /\ c # Deployer =>
              /\ \A x \in Addresses, v \in Amounts :
                    /\ mintError(c, x, v) = "OwnableUnauthorizedAccount"
                    /\ burnFromError(c, x, v) = "OwnableUnauthorizedAccount"
                    /\ ~ENABLED mint(c, x, v)
                    /\ ~ENABLED burnFrom(c, x, v)
              /\ \A i \in IdInputs :
                    /\ cancelError(i, c) = "OwnableUnauthorizedAccount"
                    /\ ~ENABLED cancelProposal(c, i)
              /\ \A q \in QuorumInputs :
                    /\ setQuorumError(c, q) = "OwnableUnauthorizedAccount"
                    /\ ~ENABLED setQuorumNumerator(c, q)
              /\ \A n \in PeriodInputs :
                    /\ setVotingPeriodError(c, n) = "OwnableUnauthorizedAccount"
                    /\ ~ENABLED setVotingPeriodBlocks(c, n)
        /\ \A v \in Amounts :
              v <= balances[c] =>
                  ENABLED (burn(c, v) /\ balances'[c] = balances[c] - v)

\* C28 witness: an account that is not the owner holds a token and may burn
\* it, while its mint, its burn of the owner's tokens, its cancelProposal of
\* an open proposal and its parameter changes are refused.
C28_Witness ==
    \E c \in Accounts \ {Deployer}, p \in ProposalIds :
        /\ balances[c] = 1
        /\ ENABLED burn(c, 1)
        /\ Open(p)
        /\ balances[Deployer] > 0
        /\ ~ENABLED burnFrom(c, Deployer, 1)
        /\ ~ENABLED cancelProposal(c, p)
        /\ ~ENABLED setQuorumNumerator(c, 100)

\* what the registry stores for proposal p besides its tallies and flags
Receipts(p) == hasVoted[p]

\* C29: a failing vote, executeProposal, cancelProposal, setQuorumNumerator
\* or setVotingPeriodBlocks call is no step: proposals, tallies, receipts and
\* parameters stay as they were.  Accordingly every step that writes a
\* receipt or a tally is a vote whose checks all passed, the weight check
\* included, every step that sets a flag or a parameter is a call whose
\* checks passed, and a step writes for one call only.
C29_FailingCallsChangeNothing ==
    /\ [](/\ \A c \in Accounts, i \in IdInputs, b \in BOOLEAN :
                voteError(i, c) # "" => ~ENABLED vote(c, i, b)
          /\ \A c \in Accounts, i \in IdInputs :
                /\ executeError(i) # "" => ~ENABLED executeProposal(c, i)
                /\ cancelError(i, c) # "" => ~ENABLED cancelProposal(c, i)
          /\ \A c \in Accounts, q \in QuorumInputs :
                setQuorumError(c, q) # "" => ~ENABLED setQuorumNumerator(c, q)
          /\ \A c \in Accounts, n \in PeriodInputs :
                setVotingPeriodError(c, n) # "" =>
                    ~ENABLED setVotingPeriodBlocks(c, n))
    /\ [][/\ \A p \in ProposalIds, c \in Accounts :
                Receipts(p)'[c] # Receipts(p)[c] =>
                    /\ voteError(p, c) = ""
                    /\ getPastVotes(c, proposals[p].snapshotBlock) > 0
                    /\ Receipts(p)'[c]
                    /\ proposals'[p].forVotes + proposals'[p].againstVotes =
                          proposals[p].forVotes + proposals[p].againstVotes
                              + getPastVotes(c, proposals[p].snapshotBlock)
          /\ \A p \in ProposalIds :
                /\ (Exists(p) /\ << proposals'[p].forVotes, proposals'[p].againstVotes >>
                                  # << proposals[p].forVotes, proposals[p].againstVotes >>) =>
                      \E c \in Accounts :
                          voteError(p, c) = "" /\ Receipts(p)'[c] /\ ~Receipts(p)[c]
                /\ ExecuteStep(p) => executeError(p) = ""
                /\ CancelStep(p) => cancelError(p, Deployer) = ""
          /\ quorumNumerator' # quorumNumerator =>
                (setQuorumError(Deployer, quorumNumerator') = "" /\ UNCHANGED <<proposals, hasVoted, votingPeriodBlocks>>)
          /\ votingPeriodBlocks' # votingPeriodBlocks =>
                (setVotingPeriodError(Deployer, votingPeriodBlocks') = "" /\ UNCHANGED <<proposals, hasVoted, quorumNumerator>>)]_vars

\* C29 witness: a caller with votes now but none at the snapshot of an open
\* proposal is refused with "no voting power at snapshot" and has no receipt,
\* while another account has voted on the proposal.
C29_Witness ==
    \E p \in ProposalIds, c \in Accounts, x \in Accounts :
        /\ Open(p)
        /\ voteError(p, c) = "no voting power at snapshot"
        /\ ~hasVoted[p][c]
        /\ getVotes(c) > 0
        /\ hasVoted[p][x]
        /\ ~ENABLED vote(c, p, TRUE)

\* the arguments the constructor is given in InitDeploy
ConstructorInputs ==
    {ZeroAddress, TokenAddress} \X QuorumInputs \X PeriodInputs

\* C30: in every reachable state 1 <= quorumNumerator <= 100 and
\* votingPeriodBlocks > 0.  The constructor fails with "token zero", "invalid
\* quorum" or "voting period zero" on a null token, a numerator outside
\* 1..100 or a period of zero, and stores its arguments otherwise; a setter
\* called with a value out of range fails, is no step and leaves the
\* parameter as it was.
C30_ParametersInRange ==
    /\ quorumNumerator \in ValidNumerators
    /\ votingPeriodBlocks > 0
    /\ \A in \in ConstructorInputs :
          /\ in[1] = ZeroAddress => constructorError(in[1], in[2], in[3]) = "token zero"
          /\ (in[1] # ZeroAddress /\ in[2] \notin ValidNumerators) =>
                constructorError(in[1], in[2], in[3]) = "invalid quorum"
          /\ (in[1] # ZeroAddress /\ in[2] \in ValidNumerators /\ in[3] = 0) =>
                constructorError(in[1], in[2], in[3]) = "voting period zero"
          /\ (constructorError(in[1], in[2], in[3]) = "") <=>
                (in[1] # ZeroAddress /\ in[2] \in ValidNumerators /\ in[3] > 0)
    /\ \A c \in Accounts :
          /\ \A q \in QuorumInputs \ ValidNumerators :
                /\ setQuorumError(c, q) # ""
                /\ setQuorumError(Deployer, q) = "invalid quorum"
                /\ ~ENABLED setQuorumNumerator(c, q)
          /\ \A n \in PeriodInputs :
                n = 0 =>
                    /\ setVotingPeriodError(c, n) # ""
                    /\ setVotingPeriodError(Deployer, n) = "voting period zero"
                    /\ ~ENABLED setVotingPeriodBlocks(c, n)

\* C30 witness: with the greatest numerator and a period of two blocks in
\* force, under which a proposal was created, the registry refuses the
\* owner's numerator of 101 and period of zero.
C30_Witness ==
    /\ quorumNumerator = 100
    /\ votingPeriodBlocks = 2
    /\ Exists(1)
    /\ proposals[1].endBlock = proposals[1].startBlock + 2
    /\ ~ENABLED setQuorumNumerator(Deployer, 101)
    /\ ~ENABLED setVotingPeriodBlocks(Deployer, 0)
    /\ constructorError(TokenAddress, 101, 2) = "invalid quorum"

TouchStep(i) ==
    /\ Exists(i)
    /\ proposals'[i] # proposals[i] \/ hasVoted'[i] # hasVoted[i]

\* the step is a vote of c on proposal i
VoteStep(c, i) == ~hasVoted[i][c] /\ hasVoted'[i][c]

\* C32: proposals are independent: a vote, cancelProposal or executeProposal
\* on proposal i changes no field, tally or receipt of another proposal j,
\* nor the state of j, nor whether and with which weight anyone can vote on
\* j.  A vote of c on i adds to the tally of i the votes c had at the snapshot
\* of i, not of another proposal, and uses up c's vote on i only: after it a
\* second vote of c on i fails with "already voted" while c's vote on j is as
\* possible as before.
C32_ProposalsIndependent ==
    [][\A i \in ProposalIds :
          /\ \A j \in ProposalIds \ {i} :
                TouchStep(i) =>
                   /\ proposals'[j] = proposals[j]
                   /\ hasVoted'[j] = hasVoted[j]
                   /\ state(j)' = state(j)
                   /\ \A c \in Accounts :
                         /\ voteError(j, c)' = voteError(j, c)
                         /\ voteWeight(j, c)' = voteWeight(j, c)
          /\ \A c \in Accounts :
                VoteStep(c, i) =>
                   /\ proposals'[i].forVotes + proposals'[i].againstVotes =
                        proposals[i].forVotes + proposals[i].againstVotes
                          + getPastVotes(c, proposals[i].snapshotBlock)
                   /\ voteError(i, c)' = "already voted"]_vars

\* C32 witness: the deployer has voted on two proposals that are both still
\* open, with 2 votes for the first and 1 vote against the second: its votes
\* at the two snapshots differ, and each tally holds the votes of its own
\* snapshot.
C32_Witness ==
    /\ Open(1) /\ Open(2)
    /\ hasVoted[1][Deployer] /\ hasVoted[2][Deployer]
    /\ proposals[1].snapshotBlock # proposals[2].snapshotBlock
    /\ getPastVotes(Deployer, proposals[1].snapshotBlock) = 2
    /\ getPastVotes(Deployer, proposals[2].snapshotBlock) = 1
    /\ proposals[1].forVotes = 2 /\ proposals[1].againstVotes = 0
    /\ proposals[2].forVotes = 0 /\ proposals[2].againstVotes = 1

\* every value a quorum numerator can be given, the refused ones included
AllNumerators == 0..(QUORUM_DENOMINATOR + 1)

\* C33: a proposal without votes in favour is never Succeeded: under every
\* quorum numerator its state is not Succeeded and it cannot be executed, and
\* once its window has closed it is Defeated, also when the total supply at
\* its snapshot is 0 and the required quorum is therefore 0.
C33_NoVotesNeverSucceeded ==
    \A p \in ProposalIds :
       (Exists(p) /\ proposals[p].forVotes = 0) =>
          /\ \A q \in AllNumerators :
                /\ stateWith(p, q) # "Succeeded"
                /\ Closed(p) => stateWith(p, q) = "Defeated"
          /\ state(p) # "Succeeded"
          /\ \A c \in Accounts : ~ENABLED executeProposal(c, p)

\* C33 witness: a closed proposal without any vote whose snapshot saw a total
\* supply of 0: the required quorum is 0 and is reached, the state is Defeated.
C33_Witness ==
    /\ Closed(1)
    /\ proposals[1].forVotes = 0
    /\ proposals[1].againstVotes = 0
    /\ getPastTotalSupply(proposals[1].snapshotBlock) = 0
    /\ requiredQuorum(1) = 0
    /\ proposals[1].forVotes >= requiredQuorum(1)
    /\ state(1) = "Defeated"

\* the accounts whose receipt on p is set
Voters(p) == {a \in Accounts : hasVoted[p][a]}

\* the votes each account had at the snapshot of p
WeightAtSnapshot(p) ==
    [a \in Accounts |-> getPastVotes(a, proposals[p].snapshotBlock)]

\* C34: for every proposal forVotes + againstVotes is the sum, over the
\* accounts whose receipt is set, of their votes at the snapshot, each counted
\* once; it therefore never exceeds the total supply at the snapshot, however
\* tokens and delegations move afterwards.
C34_TalliesAreSnapshotWeights ==
    \A p \in ProposalIds :
       Exists(p) =>
          /\ proposals[p].forVotes + proposals[p].againstVotes =
                SumOver(WeightAtSnapshot(p), Voters(p))
          /\ proposals[p].forVotes + proposals[p].againstVotes <=
                getPastTotalSupply(proposals[p].snapshotBlock)
          /\ SumOver(WeightAtSnapshot(p), Accounts) <=
                getPastTotalSupply(proposals[p].snapshotBlock)

\* C34 witness: the deployer voted with the whole supply at the snapshot and
\* then moved a token to account 2, which now has votes of its own and an
\* open window but no votes at the snapshot: its vote is refused, the moved
\* token is not counted again.
C34_Witness ==
    /\ Open(1)
    /\ Voters(1) = {Deployer}
    /\ proposals[1].forVotes + proposals[1].againstVotes = InitialSupply
    /\ getPastTotalSupply(proposals[1].snapshotBlock) = InitialSupply
    /\ getVotes(2) > 0
    /\ getVotes(Deployer) < InitialSupply
    /\ WeightAtSnapshot(1)[2] = 0
    /\ voteError(1, 2) = "no voting power at snapshot"

\* C35: every executed proposal has its window behind it, more votes in
\* favour than against and at least one vote in favour; and the step that
\* executes it is taken in a state where forVotes is at least
\* floor(total supply at the snapshot * quorumNumerator / 100), with the
\* quorumNumerator stored at that moment.
C35_ExecutedHadSucceeded ==
    /\ [](\A p \in ProposalIds :
            proposals[p].executed =>
               /\ blockNumber > proposals[p].endBlock
               /\ proposals[p].forVotes > proposals[p].againstVotes
               /\ proposals[p].forVotes > 0)
    /\ [][\A p \in ProposalIds :
            ExecuteStep(p) =>
               /\ proposals[p].forVotes >=
                     FloorOfProduct(getPastTotalSupply(proposals[p].snapshotBlock),
                                    quorumNumerator, QUORUM_DENOMINATOR)
               /\ blockNumber > proposals[p].endBlock
               /\ proposals[p].forVotes > proposals[p].againstVotes]_vars

\* C35 witness: a proposal was executed with 1 vote in favour out of a supply
\* of 2 at the snapshot, and the quorum numerator was raised to 100 afterwards:
\* the quorum of the present numerator is 2 and is not met.
C35_Witness ==
    /\ proposals[1].executed
    /\ proposals[1].forVotes = 1
    /\ proposals[1].againstVotes = 0
    /\ getPastTotalSupply(proposals[1].snapshotBlock) = 2
    /\ quorumNumerator = 100
    /\ proposals[1].forVotes < requiredQuorum(1)

\* C36: no proposal is both canceled and executed, and no step resets the
\* canceled or the executed flag of a proposal.
C36_FlagsExclusiveAndSticky ==
    /\ [](\A p \in ProposalIds : ~(proposals[p].canceled /\ proposals[p].executed))
    /\ [][\A p \in ProposalIds :
            /\ proposals[p].canceled => proposals'[p].canceled
            /\ proposals[p].executed => proposals'[p].executed]_vars

\* C36 witness: proposal 1 was executed and proposal 2 canceled, blocks after
\* both were created; the owner's cancelProposal on the executed one and
\* executeProposal on the canceled one are refused.
C36_Witness ==
    /\ proposals[1].executed /\ ~proposals[1].canceled
    /\ proposals[2].canceled /\ ~proposals[2].executed
    /\ blockNumber > proposals[2].endBlock
    /\ cancelError(1, Deployer) = "already executed"
    /\ executeError(2) = "proposal canceled"
    /\ ~ENABLED cancelProposal(Deployer, 1)
    /\ ~ENABLED executeProposal(Deployer, 2)

\* the series has a checkpoint of the current block
WrittenThisBlock(series) ==
    Len(series) > 0 /\ series[Len(series)].key = blockNumber

\* C37: the snapshot of a proposal holds the values its block ends with.  As
\* long as the chain is in the snapshot block, the checkpoint looked up under
\* the snapshot holds the current votes of every account and the current
\* total supply, whatever transfer, mint, burn or delegate ran in the block,
\* before or after createProposal: such an operation overwrites the
\* checkpoint of the block in place.  When the chain leaves the block, the
\* weight vote reads and the supply state reads for the proposal are the
\* votes and the supply the block ended with.
C37_SnapshotIsEndOfBlock ==
    /\ [](\A p \in ProposalIds :
            (Exists(p) /\ blockNumber = proposals[p].snapshotBlock) =>
               /\ \A a \in Accounts :
                     getPastVotes(a, proposals[p].snapshotBlock) = getVotes(a)
               /\ getPastTotalSupply(proposals[p].snapshotBlock) = totalSupply)
    /\ [][\A p \in ProposalIds :
            (Exists(p) /\ blockNumber = proposals[p].snapshotBlock) =>
               /\ \A a \in Accounts :
                     (WrittenThisBlock(delegateCheckpoints[a]) /\ blockNumber' = blockNumber) =>
                        /\ Len(delegateCheckpoints'[a]) = Len(delegateCheckpoints[a])
                        /\ voteWeight(p, a)' = getVotes(a)'
               /\ (WrittenThisBlock(totalCheckpoints) /\ blockNumber' = blockNumber) =>
                     /\ Len(totalCheckpoints') = Len(totalCheckpoints)
                     /\ getPastTotalSupply(proposals[p].snapshotBlock)' = totalSupply'
               /\ blockNumber' > blockNumber =>
                     /\ \A a \in Accounts : voteWeight(p, a)' = getVotes(a)
                     /\ getPastTotalSupply(proposals[p].snapshotBlock)' = totalSupply
                     /\ requiredQuorum(p)' =
                          FloorOfProduct(totalSupply, quorumNumerator, QUORUM_DENOMINATOR)]_vars

\* C37 witness: in the snapshot block of proposal 1 the deployer delegated to
\* itself, then to account 2, and a token was burned: the deployer's only
\* checkpoint has the key of the snapshot and the value 0, which only an
\* overwrite in that block can produce, and the supply checkpoint of the
\* block was overwritten from 2 to 1.  Account 2 has voted with the 1 vote
\* the block ended with, and the quorum is taken from the supply 1.
C37_Witness ==
    /\ Exists(1)
    /\ blockNumber > proposals[1].snapshotBlock
    /\ delegateCheckpoints[Deployer] =
          << [key |-> proposals[1].snapshotBlock, value |-> 0] >>
    /\ delegateCheckpoints[2] =
          << [key |-> proposals[1].snapshotBlock, value |-> 1] >>
    /\ totalCheckpoints = << [key |-> proposals[1].snapshotBlock, value |-> 1] >>
    /\ hasVoted[1][2]
    /\ proposals[1].forVotes = 1
    /\ voteWeight(1, Deployer) = 0
    /\ getPastTotalSupply(proposals[1].snapshotBlock) = 1

\* the states of a proposal that is no longer Active
Terminal == {"Succeeded", "Defeated", "Canceled", "Executed"}

\* C38: the block number never decreases, and a proposal whose state is
\* Succeeded, Defeated, Canceled or Executed is in one of these four states
\* after every step, never Active again.  In such a state every vote on the
\* proposal by every caller is refused, with "proposal canceled" or "voting
\* ended", and no step changes its tallies or receipts: the tallies are
\* final once the window has closed or the proposal is canceled.
C38_NeverActiveAgain ==
    /\ [](\A p \in ProposalIds :
            /\ state(p) \in Terminal <=>
                  (Exists(p) /\ (proposals[p].canceled \/ proposals[p].executed
                                 \/ blockNumber > proposals[p].endBlock))
            /\ state(p) \in Terminal =>
                  \A c \in Accounts :
                     /\ voteError(p, c) \in {"proposal canceled", "voting ended"}
                     /\ \A s \in BOOLEAN : ~ENABLED vote(c, p, s))
    /\ [][/\ blockNumber' >= blockNumber
          /\ \A p \in ProposalIds :
                state(p) \in Terminal =>
                   /\ state(p)' \in Terminal
                   /\ proposals'[p].forVotes = proposals[p].forVotes
                   /\ proposals'[p].againstVotes = proposals[p].againstVotes
                   /\ hasVoted'[p] = hasVoted[p]]_vars

\* C38 witness: proposal 1 is past its window and Succeeded; proposal 2 was
\* canceled inside its window.  The deployer has votes at the snapshot of
\* proposal 2 and no receipt on it, and account 2 has none on proposal 1,
\* and the voting period was changed since: both votes are refused.
C38_Witness ==
    /\ Closed(1)
    /\ state(1) = "Succeeded"
    /\ ~hasVoted[1][2]
    /\ voteError(1, 2) = "voting ended"
    /\ state(2) = "Canceled"
    /\ blockNumber <= proposals[2].endBlock
    /\ blockNumber > proposals[2].snapshotBlock
    /\ ~hasVoted[2][Deployer]
    /\ voteWeight(2, Deployer) > 0
    /\ voteError(2, Deployer) = "proposal canceled"
    /\ votingPeriodBlocks = 2

\* C39: when the chain keeps advancing, every created proposal leaves Active
\* for good: from some point on its state is always Succeeded, Defeated,
\* Canceled or Executed.  Only the mining of blocks is assumed to go on; no
\* call of DAOVoting or of the token has to happen.
C39_EventuallyNotActive ==
    \A p \in ProposalIds :
       [](Exists(p) => <>[](state(p) \in Terminal))

\* C39 witness: a proposal nobody voted on, canceled or executed, and on which
\* no call was made after its creation, has left Active by the passing of
\* blocks alone; a second proposal is still Active.
C39_Witness ==
    /\ Closed(1)
    /\ Voters(1) = {}
    /\ state(1) = "Defeated"
    /\ state(2) = "Active"

\* the steps of main() whose failure ends the run with exit code 1
MandatorySteps == {"setup", "config", "gas", "deployToken", "deployDAO", "save"}

\* the configuration entry exists and passes the checks of validateConfig
ConfigFoundAndValid ==
    /\ config.found
    /\ config.tokenValid
    /\ config.quorumNumerator >= 1 /\ config.quorumNumerator <= 100
    /\ config.votingPeriodBlocks >= 1

\* C40: the deployment script takes its steps in the order of the source and
\* stops with exit code 1 at the first mandatory step that fails, leaving the
\* later steps undone.  No contract is deployed unless the configuration of
\* the network was found and validated; DAOVoting is deployed only after
\* TestToken was deployed and validateDeployment returned true for it;
\* saveDeployment has run only if DAOVoting was deployed and validated and
\* its governanceToken is the token address; a failed gas estimation is
\* followed by the confirmation step, not by an exit.
C40_ScriptOrder ==
    /\ [](/\ deployed # {} => ConfigFoundAndValid
          /\ "DAOVoting" \in deployed =>
                /\ "TestToken" \in deployed
                /\ "TestToken" \in validated
                /\ tokenAddress = TokenAddress
          /\ saved =>
                /\ deployed = Contracts
                /\ validated = Contracts
                /\ governanceToken = tokenAddress
                /\ tokenAddress # ZeroAddress
          /\ exitCode = 1 =>
                /\ pc \in MandatorySteps
                /\ StepIndex(pc) < StepIndex("deployToken") => deployed = {}
                /\ StepIndex(pc) < StepIndex("deployDAO") => "DAOVoting" \notin deployed
                /\ StepIndex(pc) < StepIndex("save") => ~saved
                /\ pc = "gas" => (gas = "ok" /\ network # "hardhat")
          /\ exitCode = 0 => (pc = "done" /\ saved)
          /\ exitCode = NotExited =>
                /\ StepIndex(pc) > StepIndex("config") => ConfigFoundAndValid
                /\ StepIndex(pc) > StepIndex("deployToken") => "TestToken" \in validated
                /\ StepIndex(pc) > StepIndex("deployDAO") => validated = Contracts
                /\ StepIndex(pc) > StepIndex("save") => saved)
    /\ [][/\ exitCode = NotExited
          /\ pc' # pc => StepIndex(pc') = StepIndex(pc) + 1
          /\ exitCode' = 1 => pc' = pc
          /\ deployed \subseteq deployed' /\ validated \subseteq validated'
          /\ (pc = "gas" /\ gas' = "failed") =>
                (exitCode' = NotExited /\ pc' = "confirm")
          /\ (pc \notin MandatorySteps /\ pc # "summary") => exitCode' = NotExited]_vars

\* C40 witness: on a public network with a valid configuration the gas
\* estimation failed and the run went on to its end: both contracts are
\* deployed and validated, the deployment is saved, the exit code is 0, and
\* the contracts hold what their constructors store.
C40_Witness ==
    /\ network = "sepolia"
    /\ gas = "failed"
    /\ exitCode = 0
    /\ saved
    /\ deployed = Contracts
    /\ governanceToken = TokenAddress
    /\ quorumNumerator = config.quorumNumerator
    /\ votingPeriodBlocks = config.votingPeriodBlocks
    /\ totalSupply = InitialSupply
    /\ constructorError(governanceToken, quorumNumerator, votingPeriodBlocks) = ""

====
